---- MODULE Spec2Model ----
(***************************************************************************)
(* secure-shell-server: the command validator (pkg/validator), its xargs   *)
(* parser and the secure runner (pkg/runner), as state machines.           *)
(*                                                                         *)
(* Text is modelled by TLA+ strings and handled character by character     *)
(* (Head, Tail, SubSeq, Len, \o), so prefix tests, path cleaning and       *)
(* message formatting are computed the way the Go code computes them.      *)
(***************************************************************************)
EXTENDS Integers, Sequences, FiniteSets, TLC

VARIABLES
    config,         \* *config.ShellCommandConfig held by validator and runner
    call,           \* the last call made on the validator (op and arguments)
    ret,            \* what that call returned: (bool, string)
    blockLog,       \* lines of the block journal file, oldest first
    rpc,            \* where RunCommand is: "idle", "run", "returned"
    request,        \* RunCommand's arguments (command, workingDir)
    absWorkingDir,  \* RunCommand's absWorkingDir
    prog,           \* the parsed program: a sequence of simple commands
    ip,             \* index in prog of the command the interpreter is at
    shvars,         \* the interpreter's shell variables
    substOut,       \* output captured for the command substitution at ip
    vcalls,         \* the calls callFunc made to ValidateCommand, in order
    spawned,        \* the argument vectors the interpreter ran, in order
    stdout,         \* what was written to the runner's stdout, in order
    rerr,           \* the error RunCommand returned ("" is nil)
    pst,            \* pipeline: where the runner of each element is
    perr,           \* pipeline: the error held by the runner of each element
    clock,          \* seconds elapsed since RunCommand derived its context
    ctx,            \* the context Run is called with: deadline (0: none), err
    child,          \* the child of the command under the deadline
    host,           \* the server process: working directory, environment
    ienv,           \* the environment of the interpreter of the request
    opened,         \* the files the default open handler opened, in order
    stderr,         \* what was written to the runner's stderr, in order
    spawnEnv,       \* the environment each child was started with, in order
    ol,             \* an OutputLimiter: MaxBytes, BytesWritten, ...
    sink,           \* the bytes ol.Writer received, in order
    wret,           \* the last Write on ol: its argument p and (n, err)
    input,          \* the bytes handed to Write on ol so far, in order
    nwrites,        \* the number of Write calls made on ol
    mutex,          \* Server.cmdMutex: the request holding it, "" when free
    rw,             \* the stdout and stderr fields of the server's runner
    lims,           \* the limiters SetOutputs made for each request
    bufs,           \* each request's outputBuffer, and the server's terminal
    sreq,           \* each request's progress through handleRunCommand
    doc,            \* the configuration document handed to the loader
    loaded,         \* what the loader returned for doc
    gor             \* the goroutines inside Write on ol: position and locals

vvars == <<config, call, ret, blockLog>>

rvars == <<rpc, request, absWorkingDir, prog, ip, shvars, substOut, vcalls,
           spawned, stdout, rerr>>

\* The state of a pipeline under interpretation.
pvars == <<pst, perr>>

\* The state outside the validator and the sequential interpreter.
\* The context of the request and the child running under it.
tvars == <<clock, ctx, child>>

\* The server process and what the request did to files and children.
hvars == <<host, ienv, opened, stderr, spawnEnv>>

\* An output limiter on its own.
lvars == <<ol, sink, wret, input, nwrites>>

\* The server: its lock, its runner's writers, the requests in progress.
svars == <<mutex, rw, lims, bufs, sreq>>

\* The loading of a configuration document.
cvars == <<doc, loaded>>

\* Goroutines writing to one limiter at the same time.
gvars == <<gor>>

xvars == <<pvars, tvars, hvars, lvars, svars, cvars, gvars>>

\* What the interpretation of a pipeline leaves alone.
outsidePipeline == <<tvars, hvars, lvars, svars, cvars, gvars>>

\* What a request under a deadline leaves alone.
outsideDeadline == <<pvars, hvars, lvars, svars, cvars, gvars>>

\* What a request with file opens leaves alone.
outsideHost == <<pvars, tvars, lvars, svars, cvars, gvars>>

outsideServer == <<pvars, tvars, hvars, lvars, cvars, gvars>>

outsideLimiter == <<pvars, tvars, hvars, svars, cvars, gvars>>

outsideLoader == <<pvars, tvars, hvars, lvars, svars, gvars>>

outsideRace == <<pvars, tvars, hvars, svars, cvars>>

vars == <<config, call, ret, blockLog, rpc, request, absWorkingDir, prog, ip,
          shvars, substOut, vcalls, spawned, stdout, rerr, pst, perr, clock,
          ctx, child, host, ienv, opened, stderr, spawnEnv, ol, sink, wret,
          input, nwrites, mutex, rw, lims, bufs, sreq, doc, loaded, gor>>

(***************************************************************************)
(* Bounds of the model.                                                    *)
(***************************************************************************)
MaxArgs == 3    \* longest argument vector handed to ValidateCommand
MaxStmts == 2   \* most commands in the source handed to RunCommand
MaxPipe == 3    \* most elements of a pipeline
MaxClock == 3   \* seconds a request is followed for
MaxWrites == 4  \* most Write calls made on one limiter
MaxChunks == 2  \* most writes a child makes to its output
MaxRules == 2   \* most elements of a command list in a document
MaxFindArgs == 5 \* most arguments of a find invocation
MaxNest == 5    \* most arguments of an invocation of nested meta-commands
MaxCalls == 2   \* most Write calls one goroutine makes

(***************************************************************************)
(* package strings / fmt                                                   *)
(***************************************************************************)
HasPrefix(s, prefix) ==
    Len(prefix) <= Len(s) /\ SubSeq(s, 1, Len(prefix)) = prefix

Contains(s, ch) == \E i \in 1..Len(s) : SubSeq(s, i, i) = ch

\* fmt's %q verb: the text in double quotes, backslash and quote escaped.
RECURSIVE Escape(_)
Escape(s) ==
    IF s = "" THEN ""
    ELSE (IF Head(s) = "\\" THEN "\\\\"
          ELSE IF Head(s) = "\"" THEN "\\\""
          ELSE Head(s)) \o Escape(Tail(s))

Quote(s) == "\"" \o Escape(s) \o "\""

\* fmt's %v verb on a []string: [a b c]
RECURSIVE JoinWith(_, _)
JoinWith(elems, sep) ==
    IF elems = <<>> THEN ""
    ELSE IF Len(elems) = 1 THEN elems[1]
    ELSE elems[1] \o sep \o JoinWith(Tail(elems), sep)

FormatSlice(elems) == "[" \o JoinWith(elems, " ") \o "]"

(***************************************************************************)
(* package path/filepath (Unix)                                            *)
(***************************************************************************)
\* The working directory of the server process, which filepath.Abs joins
\* a relative path with.
Getwd == "/srv"

IsAbs(path) == HasPrefix(path, "/")

\* The elements of path between separators (empty elements included).
RECURSIVE SplitPath(_, _)
SplitPath(s, cur) ==
    IF s = "" THEN <<cur>>
    ELSE IF Head(s) = "/" THEN <<cur>> \o SplitPath(Tail(s), "")
    ELSE SplitPath(Tail(s), cur \o Head(s))

\* filepath.Clean's element rules: drop empty and "." elements, let ".."
\* remove the element before it, drop ".." at the root, keep leading ".."
\* of a relative path.
RECURSIVE CleanParts(_, _, _)
CleanParts(parts, out, rooted) ==
    IF parts = <<>> THEN out
    ELSE LET e == Head(parts)
             r == Tail(parts)
         IN  IF e = "" \/ e = "." THEN CleanParts(r, out, rooted)
             ELSE IF e = ".."
                  THEN IF out /= <<>> /\ out[Len(out)] /= ".."
                       THEN CleanParts(r, SubSeq(out, 1, Len(out) - 1), rooted)
                       ELSE IF rooted THEN CleanParts(r, out, rooted)
                       ELSE CleanParts(r, Append(out, ".."), rooted)
             ELSE CleanParts(r, Append(out, e), rooted)

Clean(path) ==
    IF path = "" THEN "."
    ELSE LET rooted == Head(path) = "/"
             out    == CleanParts(SplitPath(path, ""), <<>>, rooted)
         IN  IF rooted THEN "/" \o JoinWith(out, "/")
             ELSE IF out = <<>> THEN "."
             ELSE JoinWith(out, "/")

\* filepath.Join of two elements: empty elements are ignored, the rest is
\* joined with a separator and cleaned.
Join(a, b) ==
    IF a = "" /\ b = "" THEN ""
    ELSE IF a = "" THEN Clean(b)
    ELSE IF b = "" THEN Clean(a)
    ELSE Clean(a \o "/" \o b)

\* filepath.Abs never fails here: Getwd is always available.
Abs(path) == IF IsAbs(path) THEN Clean(path) ELSE Join(Getwd, path)

\* filepath.Abs in a process whose working directory is wd.
AbsFrom(wd, path) == IF IsAbs(path) THEN Clean(path) ELSE Join(wd, path)

\* filepath.Dir: all but the last element of path, cleaned.
Dir(path) ==
    LET parts == SplitPath(path, "")
    IN  IF Len(parts) = 1 THEN "."
        ELSE IF Len(parts) = 2 /\ parts[1] = "" THEN "/"
        ELSE Clean(JoinWith(SubSeq(parts, 1, Len(parts) - 1), "/"))

(***************************************************************************)
(* CommandValidator: directory and path checks                             *)
(***************************************************************************)
Decision(allowed, reason) == [allowed |-> allowed, reason |-> reason]

IsDirectoryAllowed(dir) ==
    IF dir = "" THEN Decision(FALSE, "empty directory path is not allowed")
    ELSE IF \E i \in 1..Len(config.AllowedDirectories) :
                HasPrefix(dir, config.AllowedDirectories[i])
    THEN Decision(TRUE, "")
    ELSE Decision(FALSE, "directory " \o Quote(dir) \o " is not allowed: "
                          \o config.DefaultErrorMessage)

\* Mutation: the relative path is joined with the base textually and the
\* prefix test is made on the text as given, "." and ".." not collapsed.
ResolvePath_NotCleaned(path, baseDir) ==
    IF IsAbs(path) THEN path ELSE baseDir \o "/" \o path

\* The path the prefix test of IsPathInAllowedDirectory is made on.
ResolvePath(path, baseDir) ==
    Abs(Clean(IF IsAbs(path) THEN path ELSE Join(baseDir, path)))

IsPathInAllowedDirectory(path, baseDir) ==
    IF path = "" THEN Decision(FALSE, "empty path is not allowed")
    ELSE IF \E i \in 1..Len(config.AllowedDirectories) :
                HasPrefix(ResolvePath(path, baseDir),
                          Abs(config.AllowedDirectories[i]))
    THEN Decision(TRUE, "")
    ELSE Decision(FALSE, "path " \o Quote(path)
                          \o " is outside of allowed directories: "
                          \o config.DefaultErrorMessage)

isPathLike(arg) ==
    \/ Contains(arg, "/")
    \/ Contains(arg, "\\")
    \/ HasPrefix(arg, "./")
    \/ HasPrefix(arg, "../")
    \/ HasPrefix(arg, "~")
    \/ HasPrefix(arg, ".")

(***************************************************************************)
(* XargsParser (pkg/validator/xargs.go)                                    *)
(***************************************************************************)
Parsed(cmd, args, valid, errMsg) ==
    [cmd |-> cmd, args |-> args, valid |-> valid, errMsg |-> errMsg]

\* Indexes (1-based) of the -exec / --exec flags that have a token after
\* them: the loop runs over every element but the last.
ExecFlagIndexes(args) ==
    {i \in 1..(Len(args) - 1) : args[i] = "-exec" \/ args[i] = "--exec"}

SetMin(S) == CHOOSE m \in S : \A n \in S : m <= n

findExecCommand(args) ==
    IF ExecFlagIndexes(args) = {} THEN Parsed("", <<>>, FALSE, "")
    ELSE LET i == SetMin(ExecFlagIndexes(args))
         IN  Parsed(args[i + 1], SubSeq(args, i + 2, Len(args)), TRUE, "")

isFlagWithArg(flag) ==
    \/ flag \in {"-a", "--arg-file", "-E", "--eof", "--max-args", "-n",
                 "--max-chars", "-s", "--max-lines", "-L", "--max-procs", "-P"}
    \/ flag = "-i"
    \/ flag = "-I"

\* The scan of findCommandAfterFlags from position i (1-based).
RECURSIVE ScanAfterFlags(_, _)
ScanAfterFlags(args, i) ==
    IF i > Len(args) THEN Parsed("", <<>>, FALSE, "")
    ELSE IF ~HasPrefix(args[i], "-")
         THEN Parsed(args[i], SubSeq(args, i + 1, Len(args)), TRUE, "")
    ELSE IF isFlagWithArg(args[i]) /\ i + 1 <= Len(args)
         THEN ScanAfterFlags(args, i + 2)
    ELSE ScanAfterFlags(args, i + 1)

findCommandAfterFlags(args) == ScanAfterFlags(args, 1)

\* Mutation: an exec flag is not looked for.
ParseXargsCommand_NoExecFlag(args) ==
    IF Len(args) = 0
    THEN Parsed("", <<>>, FALSE, "no arguments provided to xargs")
    ELSE IF findCommandAfterFlags(args).valid THEN findCommandAfterFlags(args)
    ELSE Parsed("", <<>>, FALSE,
                "unable to determine command to be executed by xargs")

ParseXargsCommand(args) ==
    IF Len(args) = 0
    THEN Parsed("", <<>>, FALSE, "no arguments provided to xargs")
    ELSE IF findExecCommand(args).valid THEN findExecCommand(args)
    ELSE IF findCommandAfterFlags(args).valid THEN findCommandAfterFlags(args)
    ELSE Parsed("", <<>>, FALSE,
                "unable to determine command to be executed by xargs")

(***************************************************************************)
(* FindParser (pkg/validator/find.go)                                      *)
(***************************************************************************)
FindResult(commands, ok, errMsg) ==
    [commands |-> commands, ok |-> ok, errMsg |-> errMsg]

IsExecFlag(arg) == arg = "-exec" \/ arg = "-execdir"

IsTerminator(arg) == arg = ";" \/ arg = "\\;" \/ arg = "+"

\* The inner loop of extractExecCommands: the index (1-based) at which the
\* scan from j stops, a terminator or one past the end.
RECURSIVE ClauseEnd(_, _)
ClauseEnd(args, j) ==
    IF j > Len(args) \/ IsTerminator(args[j]) THEN j
    ELSE ClauseEnd(args, j + 1)

\* The outer loop of extractExecCommands from index i (1-based), with the
\* commands collected so far.
RECURSIVE ExtractFrom(_, _, _)
ExtractFrom(args, i, commands) ==
    IF i > Len(args) - 1 THEN commands
    ELSE IF IsExecFlag(args[i])
    THEN LET j == ClauseEnd(args, i + 1)
         IN  ExtractFrom(args, j + 1,
                 IF j > i + 1 /\ ~HasPrefix(args[i + 1], "{")
                 THEN Append(commands, args[i + 1])
                 ELSE commands)
    ELSE ExtractFrom(args, i + 1, commands)

extractExecCommands(args) == ExtractFrom(args, 1, <<>>)

ParseFindExecArgs(args) ==
    IF Len(args) = 0 THEN FindResult(<<>>, FALSE, "")
    ELSE IF Len(extractExecCommands(args)) = 0 THEN FindResult(<<>>, FALSE, "")
    ELSE FindResult(extractExecCommands(args), TRUE, "")

(***************************************************************************)
(* CommandValidator.ValidateCommand                                        *)
(*                                                                         *)
(* A validation returns the decision together with the lines it appended   *)
(* to the block journal, in the order logBlockedCommand wrote them.        *)
(***************************************************************************)
Verdict(allowed, reason, log) ==
    [allowed |-> allowed, reason |-> reason, log |-> log]

\* time.Now().Format(time.RFC3339) of a journal line.
Timestamp == "2006-01-02T15:04:05Z"

\* The journal lines one logBlockedCommand call appends (the journal
\* directory is writable): none when BlockLogPath is empty.
logBlockedCommand(cmd, args, reason) ==
    IF config.BlockLogPath = "" THEN <<>>
    ELSE << Timestamp \o " [BLOCKED] Command: " \o cmd \o " "
            \o FormatSlice(args) \o ", Reason: " \o reason \o "\n" >>

\* Mutation: a denial is returned without a journal entry.
Denied_NotLogged(cmd, args, reason) == Verdict(FALSE, reason, <<>>)

Denied(cmd, args, reason) ==
    Verdict(FALSE, reason, logBlockedCommand(cmd, args, reason))

\* Indexes of the arguments validatePathArguments checks.
PathArgIndexes(args) ==
    {i \in 1..Len(args) : ~HasPrefix(args[i], "-") /\ isPathLike(args[i])}

validatePathArguments(cmd, args, workDir) ==
    LET bad == {i \in PathArgIndexes(args) :
                   ~IsPathInAllowedDirectory(args[i], workDir).allowed}
    IN  IF bad = {} THEN Verdict(TRUE, "", <<>>)
        ELSE Denied(cmd, args,
                    IsPathInAllowedDirectory(args[SetMin(bad)], workDir).reason)

\* Mutation: the last deny entry naming cmd decides instead of the first.
DenyIndex_Last(cmd) ==
    LET hits == {i \in 1..Len(config.DenyCommands) :
                    config.DenyCommands[i].Command = cmd}
    IN  IF hits = {} THEN 0 ELSE CHOOSE m \in hits : \A n \in hits : n <= m

\* Index of the first deny entry naming cmd, 0 when there is none.
DenyIndex(cmd) ==
    LET hits == {i \in 1..Len(config.DenyCommands) :
                    config.DenyCommands[i].Command = cmd}
    IN  IF hits = {} THEN 0 ELSE SetMin(hits)

\* Mutation: the deny list is consulted only for commands that are not
\* allow-listed (allow-first).
isCommandExplicitlyDenied_AllowFirst(cmd) ==
    IF DenyIndex(cmd) = 0
       \/ (\E i \in 1..Len(config.AllowCommands) :
               config.AllowCommands[i].Command = cmd)
    THEN Decision(FALSE, "")
    ELSE Decision(TRUE, "command " \o Quote(cmd) \o " is denied: "
                        \o config.DefaultErrorMessage)

isCommandExplicitlyDenied(cmd) ==
    IF DenyIndex(cmd) = 0 THEN Decision(FALSE, "")
    ELSE LET denied  == config.DenyCommands[DenyIndex(cmd)]
             message == IF denied.Message /= "" THEN denied.Message
                        ELSE config.DefaultErrorMessage
         IN  Decision(TRUE, "command " \o Quote(cmd) \o " is denied: " \o message)

\* config.IsCommandAllowed
IsCommandAllowed(cmd) ==
    \E i \in 1..Len(config.AllowCommands) : config.AllowCommands[i].Command = cmd

\* Index of the first allow entry naming cmd, 0 when there is none.
AllowIndex(cmd) ==
    LET hits == {i \in 1..Len(config.AllowCommands) :
                    config.AllowCommands[i].Command = cmd}
    IN  IF hits = {} THEN 0 ELSE SetMin(hits)

InList(x, list) == \E i \in 1..Len(list) : list[i] = x

\* Mutation: the allow_subs list is not consulted.
checkSubCommandPermissions_DenyOnly(cmd, args, allowed) ==
    IF Len(allowed.DenySubCommands) > 0 /\ Len(args) > 0
       /\ InList(args[1], allowed.DenySubCommands)
    THEN Denied(cmd, args, "subcommand " \o Quote(args[1])
                            \o " is denied for command " \o Quote(cmd))
    ELSE Verdict(TRUE, "", <<>>)

\* Mutation: the deny_subs list is not consulted once allow_subs matched.
checkSubCommandPermissions_AllowWins(cmd, args, allowed) ==
    IF Len(allowed.SubCommands) > 0 /\ Len(args) > 0
    THEN IF InList(args[1], allowed.SubCommands)
         THEN Verdict(TRUE, "", <<>>)
         ELSE Denied(cmd, args, "subcommand " \o Quote(args[1])
                                 \o " is not allowed for command " \o Quote(cmd))
    ELSE IF Len(allowed.DenySubCommands) > 0 /\ Len(args) > 0
            /\ InList(args[1], allowed.DenySubCommands)
    THEN Denied(cmd, args, "subcommand " \o Quote(args[1])
                            \o " is denied for command " \o Quote(cmd))
    ELSE Verdict(TRUE, "", <<>>)

checkSubCommandPermissions(cmd, args, allowed) ==
    IF Len(allowed.SubCommands) > 0 /\ Len(args) > 0
       /\ ~InList(args[1], allowed.SubCommands)
    THEN Denied(cmd, args, "subcommand " \o Quote(args[1])
                            \o " is not allowed for command " \o Quote(cmd))
    ELSE IF Len(allowed.DenySubCommands) > 0 /\ Len(args) > 0
            /\ InList(args[1], allowed.DenySubCommands)
    THEN Denied(cmd, args, "subcommand " \o Quote(args[1])
                            \o " is denied for command " \o Quote(cmd))
    ELSE Verdict(TRUE, "", <<>>)

NotPermitted(cmd) ==
    "command " \o Quote(cmd) \o " is not permitted: " \o config.DefaultErrorMessage

XargsPrefix == "xargs would execute disallowed command: "

RECURSIVE ValidateCommand(_, _, _)
RECURSIVE validateXargsCommand(_, _)

\* Mutation: the nested invocation is validated against the directory of
\* the server process instead of the working directory of the request.
validateXargsCommand_WrongDir(args, workDir) ==
    IF isCommandExplicitlyDenied("xargs").allowed
    THEN Denied("xargs", args, isCommandExplicitlyDenied("xargs").reason)
    ELSE IF ~IsCommandAllowed("xargs")
    THEN Denied("xargs", args, NotPermitted("xargs"))
    ELSE LET parsed == ParseXargsCommand(args)
         IN  IF ~parsed.valid THEN Denied("xargs", args, parsed.errMsg)
             ELSE LET nested == ValidateCommand(parsed.cmd, parsed.args, Getwd)
                  IN  IF ~nested.allowed
                      THEN Verdict(FALSE, XargsPrefix \o nested.reason,
                                   nested.log \o logBlockedCommand("xargs", args,
                                       XargsPrefix \o nested.reason))
                      ELSE Verdict(TRUE, "", <<>>)

ValidateCommand(cmd, args, workDir) ==
    IF cmd = "xargs" THEN validateXargsCommand(args, workDir)
    ELSE IF isCommandExplicitlyDenied(cmd).allowed
    THEN Denied(cmd, args, isCommandExplicitlyDenied(cmd).reason)
    ELSE IF AllowIndex(cmd) = 0
    THEN Denied(cmd, args, NotPermitted(cmd))
    ELSE LET allowed == config.AllowCommands[AllowIndex(cmd)]
         IN  IF Len(allowed.SubCommands) = 0 /\ Len(allowed.DenySubCommands) = 0
             THEN validatePathArguments(cmd, args, workDir)
             ELSE IF ~checkSubCommandPermissions(cmd, args, allowed).allowed
             THEN checkSubCommandPermissions(cmd, args, allowed)
             ELSE validatePathArguments(cmd, args, workDir)

validateXargsCommand(args, workDir) ==
    IF isCommandExplicitlyDenied("xargs").allowed
    THEN Denied("xargs", args, isCommandExplicitlyDenied("xargs").reason)
    ELSE IF ~IsCommandAllowed("xargs")
    THEN Denied("xargs", args, NotPermitted("xargs"))
    ELSE LET parsed == ParseXargsCommand(args)
         IN  IF ~parsed.valid THEN Denied("xargs", args, parsed.errMsg)
             ELSE LET nested == ValidateCommand(parsed.cmd, parsed.args, workDir)
                  IN  IF ~nested.allowed
                      THEN Verdict(FALSE, XargsPrefix \o nested.reason,
                                   nested.log \o logBlockedCommand("xargs", args,
                                       XargsPrefix \o nested.reason))
                      ELSE Verdict(TRUE, "", <<>>)

(***************************************************************************)
(* Policies and invocations the validator is exercised with.               *)
(***************************************************************************)
AllowCommand(cmd, subs, denySubs) ==
    [Command |-> cmd, SubCommands |-> subs, DenySubCommands |-> denySubs]

DenyCommand(cmd, message) == [Command |-> cmd, Message |-> message]

\* allowCommands lists: plain entries, entries with either or both
\* sub-command lists (overlapping), a command listed twice, xargs present
\* (with and without sub-command lists) and absent.
AllowLists ==
    { << AllowCommand("xargs", <<>>, <<>>), AllowCommand("cat", <<>>, <<>>),
         AllowCommand("git", <<"diff", "cat">>, <<"diff">>) >>,
      << AllowCommand("cat", <<>>, <<>>),
         AllowCommand("git", <<>>, <<"diff">>) >>,
      << AllowCommand("xargs", <<"cat">>, <<"-a">>),
         AllowCommand("diff", <<>>, <<>>),
         AllowCommand("git", <<"cat">>, <<>>),
         AllowCommand("git", <<>>, <<"cat">>) >> }

\* denyCommands lists: empty, a custom message, no message, a command
\* listed twice, commands that are allow-listed too.
DenyLists ==
    { << >>,
      << DenyCommand("cat", "cat is not allowed") >>,
      << DenyCommand("xargs", ""), DenyCommand("git", "no git"),
         DenyCommand("git", "") >> }

(***************************************************************************)
(* package config: the configuration document and its loading.             *)
(***************************************************************************)
\* A JSON value of a command list: a string, or an object whose missing
\* members are the zero values.
JSONString(s) == [kind |-> "string", str |-> s, obj |-> <<>>]

JSONObject(members) == [kind |-> "object", str |-> "", obj |-> members]

LoadResult(op, ok, value, err) ==
    [op |-> op, ok |-> ok, value |-> value, err |-> err]

\* encoding/json decoding one list element into an AllowCommand struct.
DecodeAllowCommand(raw, field) ==
    IF raw.kind = "string"
    THEN [ok |-> FALSE, value |-> AllowCommand("", <<>>, <<>>),
          err |-> "json: cannot unmarshal string into Go struct field "
                  \o field \o " of type config.AllowCommand"]
    ELSE [ok |-> TRUE,
          value |-> AllowCommand(raw.obj.command, raw.obj.subCommands,
                                 raw.obj.denySubCommands),
          err |-> ""]

\* encoding/json decoding one list element into a DenyCommand struct.
DecodeDenyCommand(raw, field) ==
    IF raw.kind = "string"
    THEN [ok |-> FALSE, value |-> DenyCommand("", ""),
          err |-> "json: cannot unmarshal string into Go struct field "
                  \o field \o " of type config.DenyCommand"]
    ELSE [ok |-> TRUE, value |-> DenyCommand(raw.obj.command, raw.obj.message),
          err |-> ""]

\* The index of the first element of a list that does not decode into a
\* struct, 0 when all decode.
FirstBad(raws) ==
    IF \A i \in 1..Len(raws) : raws[i].kind /= "string" THEN 0
    ELSE CHOOSE i \in 1..Len(raws) :
            /\ raws[i].kind = "string"
            /\ \A j \in 1..(i - 1) : raws[j].kind /= "string"

\* UnmarshalAllowCommands: each element is tried as a string, then as an
\* object.
UnmarshalAllowCommands(data) ==
    LoadResult("UnmarshalAllowCommands", TRUE,
        [i \in 1..Len(data) |->
            IF data[i].kind = "string"
            THEN AllowCommand(data[i].str, <<>>, <<>>)
            ELSE DecodeAllowCommand(data[i], "").value], "")

UnmarshalDenyCommands(data) ==
    LoadResult("UnmarshalDenyCommands", TRUE,
        [i \in 1..Len(data) |->
            IF data[i].kind = "string"
            THEN DenyCommand(data[i].str, "")
            ELSE DecodeDenyCommand(data[i], "").value], "")

\* LoadConfigFromFile on a file that opens: the decoder fills a
\* ShellCommandConfig, members in the order of the document.
LoadConfigFromFile(d) ==
    LET badAllow == FirstBad(d.allowCommands)
        badDeny  == FirstBad(d.denyCommands)
    IN  IF badAllow /= 0
        THEN LoadResult("LoadConfigFromFile", FALSE, <<>>,
                 "failed to decode config file: "
                 \o DecodeAllowCommand(d.allowCommands[badAllow],
                        "ShellCommandConfig.allowCommands").err)
        ELSE IF badDeny /= 0
        THEN LoadResult("LoadConfigFromFile", FALSE, <<>>,
                 "failed to decode config file: "
                 \o DecodeDenyCommand(d.denyCommands[badDeny],
                        "ShellCommandConfig.denyCommands").err)
        ELSE LoadResult("LoadConfigFromFile", TRUE,
                 [ AllowedDirectories  |-> d.allowedDirectories,
                   AllowCommands       |->
                       [i \in 1..Len(d.allowCommands) |->
                           DecodeAllowCommand(d.allowCommands[i], "").value],
                   DenyCommands        |->
                       [i \in 1..Len(d.denyCommands) |->
                           DecodeDenyCommand(d.denyCommands[i], "").value],
                   DefaultErrorMessage |-> d.defaultErrorMessage,
                   BlockLogPath        |-> "",
                   MaxExecutionTime    |-> d.maxExecutionTime ], "")

NoDocument ==
    /\ doc = <<>>
    /\ loaded = LoadResult("none", FALSE, <<>>, "")

\* allowedDirectories, blockLogPath, maxExecutionTime (seconds, 0 is no
\* limit) and maxOutputSize (bytes, 0 is no limit).
Sites ==
    { [dirs |-> << "/home", "/tmp" >>, log |-> "", maxTime |-> 2, maxOut |-> 0],
      [dirs |-> << "/tmp" >>, log |-> "/var/log/blocked.log", maxTime |-> 0,
       maxOut |-> 4] }

Configs ==
    { [ AllowedDirectories  |-> site.dirs,
        AllowCommands       |-> allow,
        DenyCommands        |-> deny,
        DefaultErrorMessage |-> "Command not allowed by security policy",
        BlockLogPath        |-> site.log,
        MaxExecutionTime    |-> site.maxTime,
        MaxOutputSize       |-> site.maxOut ] :
      allow \in AllowLists, deny \in DenyLists, site \in Sites }

Commands == {"xargs", "cat", "git"}

\* Argument tokens: a value-taking xargs flag, the exec flag, command and
\* sub-command names, an absolute path and a relative path.
ArgPool == {"-a", "-exec", "xargs", "cat", "diff", "/etc/x", "../file.txt"}

SeqsUpTo(S, n) == UNION {[1..k -> S] : k \in 0..n}

ArgLists == SeqsUpTo(ArgPool, MaxArgs)

WorkDirs == {"/tmp", "/tmp/subdir"}

\* Inputs of the directory and path checks.
PathInputs ==
    {"", "/tmp", "/tmp/file.txt", "/tmp/../etc/x", "/tmp/../tmp/./file.txt",
     "/etc/x", "/tmpfoo/x", "/home/u", "../file.txt", "./file.txt",
     "../../../etc/passwd", "~/x", "a//b/", ".."}

BaseDirs ==
    {"/tmp", "/tmp/subdir", "/home/u/v/w", "/srv/go/pkg/validator", "rel"}

DirInputs ==
    {"", "/tmp", "/tmp/subdir", "/tmp/subdir/x", "/tmpfoo", "/home", "/etc",
     "/tmp/../etc", "/"}

NoCall == [op |-> "none", cmd |-> "", args |-> <<>>, path |-> "", dir |-> ""]

(***************************************************************************)
(* The validator as a state machine: a validator is constructed over a     *)
(* policy, then one of its exported methods is called.                     *)
(***************************************************************************)
\* A runner on which RunCommand has not been called.
RunnerIdle ==
    /\ rpc = "idle"
    /\ request = [command |-> <<>>, workingDir |-> ""]
    /\ absWorkingDir = ""
    /\ prog = <<>>
    /\ ip = 0
    /\ shvars = <<>>
    /\ substOut = <<>>
    /\ vcalls = <<>>
    /\ spawned = <<>>
    /\ stdout = <<>>
    /\ rerr = ""

(***************************************************************************)
(* package limiter: OutputLimiter over a writer that accepts every byte    *)
(* (a bytes.Buffer, a strings.Builder).                                    *)
(***************************************************************************)
Digit(d) == SubSeq("0123456789", d + 1, d + 1)

\* fmt's %d verb on an int.
RECURSIVE Itoa(_)
Itoa(n) ==
    IF n < 0 THEN "-" \o Itoa(0 - n)
    ELSE IF n < 10 THEN Digit(n)
    ELSE Itoa(n \div 10) \o Digit(n % 10)

NewOutputLimiter(maxBytes) ==
    [ MaxBytes          |-> maxBytes,
      BytesWritten      |-> 0,
      TotalInputBytes   |-> 0,
      Truncated         |-> FALSE,
      TruncationMessage |-> "\n\n[Output truncated, exceeded " \o Itoa(maxBytes)
                            \o " bytes limit]\n" ]

getTruncationMessage(l) ==
    "\n\n[Output truncated, exceeded " \o Itoa(l.MaxBytes) \o " bytes limit. "
    \o Itoa(l.TotalInputBytes - l.BytesWritten) \o " bytes remaining]\n"

WasTruncated(l) == l.Truncated

\* Mutation: the emitted bytes are not subtracted.
GetRemainingBytes_NotSubtracted(l) ==
    IF ~l.Truncated THEN 0 ELSE l.TotalInputBytes

GetRemainingBytes(l) ==
    IF ~l.Truncated THEN 0 ELSE l.TotalInputBytes - l.BytesWritten

\* Mutation: Write reports the number of bytes it handed to the writer.
WriteResult_ForwardedCount(l, out, n, err) ==
    [ol |-> l, out |-> out, n |-> Len(out), err |-> err]

\* What one Write does: the limiter after it, the bytes it hands to the
\* writer, and its results (err "" is nil).
WriteResult(l, out, n, err) == [ol |-> l, out |-> out, n |-> n, err |-> err]

\* Mutation: a write on a truncated limiter is not counted.
Write_DiscardedNotCounted(l, p) ==
    LET l1        == [l EXCEPT !.TotalInputBytes = @ + Len(p)]
        remaining == l1.MaxBytes - l1.BytesWritten
    IN  IF l.Truncated THEN WriteResult(l, "", Len(p), "")
        ELSE IF remaining <= 0
        THEN WriteResult([l1 EXCEPT !.Truncated = TRUE],
                         getTruncationMessage(l1), Len(p), "")
        ELSE IF Len(p) > remaining
        THEN LET l2 == [l1 EXCEPT !.BytesWritten = @ + remaining,
                                  !.Truncated = TRUE]
             IN  WriteResult(l2, SubSeq(p, 1, remaining)
                                 \o getTruncationMessage(l2), Len(p), "")
        ELSE WriteResult([l1 EXCEPT !.BytesWritten = @ + Len(p)], p, Len(p), "")

\* Mutation: a write on a truncated limiter emits the marker again.
Write_MarkerRepeated(l, p) ==
    LET l1        == [l EXCEPT !.TotalInputBytes = @ + Len(p)]
        remaining == l1.MaxBytes - l1.BytesWritten
    IN  IF l1.Truncated
        THEN WriteResult(l1, getTruncationMessage(l1), Len(p), "")
        ELSE IF remaining <= 0
        THEN WriteResult([l1 EXCEPT !.Truncated = TRUE],
                         getTruncationMessage(l1), Len(p), "")
        ELSE IF Len(p) > remaining
        THEN LET l2 == [l1 EXCEPT !.BytesWritten = @ + remaining,
                                  !.Truncated = TRUE]
             IN  WriteResult(l2, SubSeq(p, 1, remaining)
                                 \o getTruncationMessage(l2), Len(p), "")
        ELSE WriteResult([l1 EXCEPT !.BytesWritten = @ + Len(p)], p, Len(p), "")

\* OutputLimiter.Write.  The writer accepts every byte: it returns the
\* length of what it is given and a nil error.
Write(l, p) ==
    LET l1        == [l EXCEPT !.TotalInputBytes = @ + Len(p)]
        remaining == l1.MaxBytes - l1.BytesWritten
    IN  IF l1.Truncated THEN WriteResult(l1, "", Len(p), "")
        ELSE IF remaining <= 0
        THEN WriteResult([l1 EXCEPT !.Truncated = TRUE],
                         getTruncationMessage(l1), Len(p), "")
        ELSE IF Len(p) > remaining
        THEN LET l2 == [l1 EXCEPT !.BytesWritten = @ + remaining,
                                  !.Truncated = TRUE]
             IN  WriteResult(l2, SubSeq(p, 1, remaining)
                                 \o getTruncationMessage(l2), Len(p), "")
        ELSE WriteResult([l1 EXCEPT !.BytesWritten = @ + Len(p)], p, Len(p), "")

\* The zero OutputLimiter: none was constructed.
ZeroLimiter ==
    [ MaxBytes |-> 0, BytesWritten |-> 0, TotalInputBytes |-> 0,
      Truncated |-> FALSE, TruncationMessage |-> "" ]

NoWrite == [p |-> "", n |-> 0, err |-> ""]

NoLimiter ==
    /\ ol = ZeroLimiter
    /\ sink = ""
    /\ wret = NoWrite
    /\ input = ""
    /\ nwrites = 0

(***************************************************************************)
(* The server: one SafeRunner shared by the requests it handles.           *)
(***************************************************************************)
\* Two requests in progress at once.
Reqs == {"A", "B"}

\* A writer: a request's outputBuffer or the terminal of the server
\* process ("os"), behind the limiter SetOutputs made for it or not.
WriterRef(to, stream, limited) ==
    [to |-> to, stream |-> stream, limited |-> limited]

NoResult == [isError |-> FALSE, text |-> ""]

NewRequest ==
    [ pc            |-> "new",
      command       |-> <<>>,
      directory     |-> "",
      absWorkingDir |-> "",
      stdio         |-> [stdout |-> WriterRef("os", "stdout", FALSE),
                         stderr |-> WriterRef("os", "stderr", FALSE)],
      nchunks       |-> 0,
      written       |-> "",
      err           |-> "",
      result        |-> NoResult ]

\* NewServer: runner.New leaves the runner writing to os.Stdout, os.Stderr.
NoServer ==
    /\ mutex = ""
    /\ rw = [stdout |-> WriterRef("os", "stdout", FALSE),
             stderr |-> WriterRef("os", "stderr", FALSE)]
    /\ lims = [q \in Reqs |-> [stdout |-> ZeroLimiter, stderr |-> ZeroLimiter]]
    /\ bufs = [k \in Reqs \cup {"os"} |-> ""]
    /\ sreq = [q \in Reqs |-> NewRequest]

\* The goroutines that copy the output of two pipeline elements to the
\* writer they share.
Writers == {"A", "B"}

IdleWriter ==
    [pc |-> "idle", p |-> "", t |-> 0, remaining |-> 0, calls |-> 0]

NoWriters == gor = [g \in Writers |-> IdleWriter]

\* No pipeline is being interpreted.
NoPipeline ==
    /\ pst = <<>>
    /\ perr = <<>>

\* No request is running under a context.
NoDeadline ==
    /\ clock = 0
    /\ ctx = [deadline |-> 0, err |-> ""]
    /\ child = "none"

\* The server process as the model takes it when its working directory
\* and environment play no part.
DefaultHost == [dir |-> Getwd, env |-> {}]

\* Nothing was opened or written, no child was started.
NoFiles ==
    /\ ienv = {}
    /\ opened = <<>>
    /\ stderr = <<>>
    /\ spawnEnv = <<>>

\* A validator and a runner constructed over a policy.
Constructed ==
    /\ config \in Configs
    /\ call = NoCall
    /\ ret = Decision(FALSE, "")
    /\ blockLog = <<>>
    /\ RunnerIdle
    /\ NoPipeline
    /\ NoDeadline
    /\ NoFiles
    /\ NoServer
    /\ NoDocument
    /\ NoWriters

Init ==
    /\ Constructed
    /\ host = DefaultHost
    /\ NoLimiter

CallValidateCommand ==
    /\ call.op = "none"
    /\ \E cmd \in Commands, args \in ArgLists, workDir \in WorkDirs :
        /\ call' = [op |-> "ValidateCommand", cmd |-> cmd, args |-> args,
                    path |-> "", dir |-> workDir]
        /\ ret' = Decision(ValidateCommand(cmd, args, workDir).allowed,
                           ValidateCommand(cmd, args, workDir).reason)
        /\ blockLog' = blockLog \o ValidateCommand(cmd, args, workDir).log
    /\ UNCHANGED <<config, rvars, xvars>>

CallIsPathInAllowedDirectory ==
    /\ call.op = "none"
    /\ \E path \in PathInputs, baseDir \in BaseDirs :
        /\ call' = [op |-> "IsPathInAllowedDirectory", cmd |-> "",
                    args |-> <<>>, path |-> path, dir |-> baseDir]
        /\ ret' = IsPathInAllowedDirectory(path, baseDir)
    /\ UNCHANGED <<config, blockLog, rvars, xvars>>

CallIsDirectoryAllowed ==
    /\ call.op = "none"
    /\ \E dir \in DirInputs :
        /\ call' = [op |-> "IsDirectoryAllowed", cmd |-> "", args |-> <<>>,
                    path |-> "", dir |-> dir]
        /\ ret' = IsDirectoryAllowed(dir)
    /\ UNCHANGED <<config, blockLog, rvars, xvars>>

Next ==
    \/ CallValidateCommand
    \/ CallIsPathInAllowedDirectory
    \/ CallIsDirectoryAllowed

Spec == Init /\ [][Next]_vars

(***************************************************************************)
(* SafeRunner.RunCommand (pkg/runner) and the shell interpreter it drives  *)
(*                                                                         *)
(* The command source is a sequence of lexical tokens: words, the          *)
(* separator ";" and the single quote "'".  A word "$NAME" is a variable   *)
(* expansion, "$(cmd)" a command substitution, "NAME=value" alone in a     *)
(* command an assignment.                                                  *)
(***************************************************************************)
Word(text, quoted) == [text |-> text, quoted |-> quoted]

ParseResult(ok, stmts, msg) == [ok |-> ok, prog |-> stmts, msg |-> msg]

\* syntax.Parser.Parse: commands are separated by ";", the tokens between
\* two quotes are one quoted word, a quote left open is an error.
RECURSIVE ParseTokens(_, _, _, _, _)
ParseTokens(toks, stmts, cur, open, qtext) ==
    IF toks = <<>>
    THEN IF open
         THEN ParseResult(FALSE, <<>>, "reached EOF without closing quote '")
         ELSE ParseResult(TRUE, IF cur = <<>> THEN stmts ELSE Append(stmts, cur), "")
    ELSE LET t == Head(toks)
             r == Tail(toks)
         IN  IF open
             THEN IF t = "'"
                  THEN ParseTokens(r, stmts, Append(cur, Word(qtext, TRUE)), FALSE, "")
                  ELSE ParseTokens(r, stmts, cur, TRUE,
                                   IF qtext = "" THEN t ELSE qtext \o " " \o t)
             ELSE IF t = "'" THEN ParseTokens(r, stmts, cur, TRUE, "")
             ELSE IF t = ";"
                  THEN ParseTokens(r, IF cur = <<>> THEN stmts ELSE Append(stmts, cur),
                                   <<>>, FALSE, "")
             ELSE ParseTokens(r, stmts, Append(cur, Word(t, FALSE)), FALSE, "")

Parse(command) == ParseTokens(command, <<>>, <<>>, FALSE, "")

\* Mutation: the source is parsed before the working directory is checked.
PreExecutionError_ParseFirst(command, workingDir) ==
    IF ~Parse(command).ok
    THEN "parse error: " \o Parse(command).msg
    ELSE IF ~IsDirectoryAllowed(Abs(workingDir)).allowed
    THEN "directory validation failed: " \o IsDirectoryAllowed(Abs(workingDir)).reason
    ELSE ""

\* The error RunCommand returns before it interprets anything, "" when
\* there is none: the directory check comes first, then the parse.
PreExecutionError(command, workingDir) ==
    IF ~IsDirectoryAllowed(Abs(workingDir)).allowed
    THEN "directory validation failed: " \o IsDirectoryAllowed(Abs(workingDir)).reason
    ELSE IF ~Parse(command).ok
    THEN "parse error: " \o Parse(command).msg
    ELSE ""

\* Mutation: the handler logs the denial but returns the arguments without
\* an error.
callFunc_DenialNotReturned(args) ==
    LET v == ValidateCommand(args[1], Tail(args), absWorkingDir)
    IN  [ok |-> TRUE, err |-> "", log |-> v.log]

\* callFunc, the interpreter's call handler: the error it returns (ok is
\* FALSE when it is non-nil) and the journal lines the validator wrote.
callFunc(args) ==
    LET v == ValidateCommand(args[1], Tail(args), absWorkingDir)
    IN  [ok |-> v.allowed, err |-> v.reason, log |-> v.log]

\* The record of one validator call made by callFunc.
VCall(args, ok) ==
    [cmd |-> args[1], args |-> Tail(args), dir |-> absWorkingDir, allowed |-> ok]

(***************************************************************************)
(* The interpreter: expansion of the words of a command into fields        *)
(***************************************************************************)
IsSubst(word) == ~word.quoted /\ HasPrefix(word.text, "$(")

IsVarRef(word) == ~word.quoted /\ HasPrefix(word.text, "$") /\ ~IsSubst(word)

\* Position of the first "=" in text, 0 when there is none.
EqualsIndex(text) ==
    LET hits == {i \in 1..Len(text) : SubSeq(text, i, i) = "="}
    IN  IF hits = {} THEN 0 ELSE SetMin(hits)

IsAssignment(stmt) ==
    /\ Len(stmt) = 1
    /\ ~stmt[1].quoted
    /\ ~HasPrefix(stmt[1].text, "$")
    /\ EqualsIndex(stmt[1].text) > 1

\* The value of a shell variable: the last assignment, "" when unset.
Lookup(name) ==
    LET hits == {i \in 1..Len(shvars) : shvars[i][1] = name}
    IN  IF hits = {} THEN "" ELSE shvars[CHOOSE m \in hits : \A n \in hits : n <= m][2]

HasSubst(stmt) == \E i \in 1..Len(stmt) : IsSubst(stmt[i])

\* The command inside the (first) command substitution of stmt.
SubstCommand(stmt) ==
    LET w == stmt[SetMin({i \in 1..Len(stmt) : IsSubst(stmt[i])})].text
    IN  << SubSeq(w, 3, Len(w) - 1) >>

\* The fields a word expands to: an unquoted expansion that yields the
\* empty string yields no field.
ExpandWord(word) ==
    IF word.quoted THEN << word.text >>
    ELSE IF IsSubst(word)
         THEN IF substOut = <<>> \/ substOut[1] = "" THEN <<>> ELSE << substOut[1] >>
    ELSE IF IsVarRef(word)
         THEN LET v == Lookup(SubSeq(word.text, 2, Len(word.text)))
              IN  IF v = "" THEN <<>> ELSE << v >>
    ELSE << word.text >>

RECURSIVE Fields(_)
Fields(stmt) ==
    IF stmt = <<>> THEN <<>> ELSE ExpandWord(Head(stmt)) \o Fields(Tail(stmt))

(***************************************************************************)
(* Requests                                                                *)
(***************************************************************************)
\* The commands a source is made of: a path argument, an assignment, a
\* command word and an argument that come from expansions, an unclosed
\* quote.
StatementPool ==
    { << "cat", "../file.txt" >>,
      << "X=xargs" >>,
      << "$X", "cat", "/etc/x" >>,
      << "git", "$(diff)" >>,
      << "cat", "'", "unclosed" >> }

RECURSIVE JoinStatements(_)
JoinStatements(stmts) ==
    IF stmts = <<>> THEN <<>>
    ELSE IF Len(stmts) = 1 THEN stmts[1]
    ELSE stmts[1] \o << ";" >> \o JoinStatements(Tail(stmts))

Sources == {JoinStatements(stmts) : stmts \in SeqsUpTo(StatementPool, MaxStmts)}

RequestDirs == {"/tmp/subdir", "../tmp", "/etc"}

\* What a command substitution may capture from its child.
SubstOutputs == {"diff", ""}

\* The exit status of a child.
ExitStatuses == {0, 1}

(***************************************************************************)
(* RunCommand as a state machine                                           *)
(***************************************************************************)
\* RunCommand up to the creation of the interpreter: resolve and check the
\* working directory, parse the source.
RunCommandStart ==
    /\ rpc = "idle"
    /\ \E command \in Sources, workingDir \in RequestDirs :
        /\ request' = [command |-> command, workingDir |-> workingDir]
        /\ absWorkingDir' = Abs(workingDir)
        /\ IF PreExecutionError(command, workingDir) /= ""
           THEN /\ rerr' = PreExecutionError(command, workingDir)
                /\ rpc' = "returned"
                /\ UNCHANGED <<prog, ip>>
           ELSE /\ prog' = Parse(command).prog
                /\ ip' = 1
                /\ rpc' = "run"
                /\ UNCHANGED rerr
    /\ UNCHANGED <<config, call, ret, blockLog, shvars, substOut, vcalls,
                   spawned, stdout>>
    /\ UNCHANGED xvars

\* The interpreter runs an assignment: no command is called.
InterpAssign ==
    /\ rpc = "run" /\ ip <= Len(prog)
    /\ IsAssignment(prog[ip])
    /\ LET text == prog[ip][1].text
           eq   == EqualsIndex(text)
       IN  shvars' = Append(shvars, << SubSeq(text, 1, eq - 1),
                                       SubSeq(text, eq + 1, Len(text)) >>)
    /\ ip' = ip + 1
    /\ UNCHANGED <<config, call, ret, blockLog, rpc, request, absWorkingDir,
                   prog, substOut, vcalls, spawned, stdout, rerr>>
    /\ UNCHANGED xvars

\* The interpreter runs the command of a command substitution: it goes
\* through the call handler like every command; its output is captured.
InterpSubstitute ==
    /\ rpc = "run" /\ ip <= Len(prog)
    /\ ~IsAssignment(prog[ip])
    /\ HasSubst(prog[ip]) /\ substOut = <<>>
    /\ LET args == SubstCommand(prog[ip])
           c    == callFunc(args)
       IN  /\ vcalls' = Append(vcalls, VCall(args, c.ok))
           /\ blockLog' = blockLog \o c.log
           /\ IF ~c.ok
              THEN /\ rerr' = c.err
                   /\ rpc' = "returned"
                   /\ UNCHANGED <<spawned, substOut>>
              ELSE /\ spawned' = Append(spawned, args)
                   /\ \E out \in SubstOutputs : substOut' = << out >>
                   /\ UNCHANGED <<rerr, rpc>>
    /\ UNCHANGED <<config, call, ret, request, absWorkingDir, prog, ip, shvars,
                   stdout>>
    /\ UNCHANGED xvars

\* Mutation: a handler error is recorded but the interpreter goes on with
\* the next command.
InterpCall_ContinuesAfterDenial ==
    /\ rpc = "run" /\ ip <= Len(prog)
    /\ ~IsAssignment(prog[ip])
    /\ HasSubst(prog[ip]) => substOut /= <<>>
    /\ LET args == Fields(prog[ip])
       IN  IF args = <<>>
           THEN UNCHANGED <<vcalls, blockLog, spawned, stdout, rerr>>
           ELSE LET c == callFunc(args)
                IN  /\ vcalls' = Append(vcalls, VCall(args, c.ok))
                    /\ blockLog' = blockLog \o c.log
                    /\ IF ~c.ok
                       THEN /\ rerr' = c.err
                            /\ UNCHANGED <<spawned, stdout>>
                       ELSE /\ spawned' = Append(spawned, args)
                            /\ stdout' = Append(stdout, args[1])
                            /\ UNCHANGED rerr
    /\ ip' = ip + 1
    /\ substOut' = <<>>
    /\ UNCHANGED <<config, call, ret, request, absWorkingDir, prog, shvars, rpc>>
    /\ UNCHANGED xvars

\* The interpreter is about to run the simple command at ip: the words are
\* expanded, the call handler is asked, and the command is run only when
\* the handler returned no error; a handler error halts the interpreter.
InterpCall ==
    /\ rpc = "run" /\ ip <= Len(prog)
    /\ ~IsAssignment(prog[ip])
    /\ HasSubst(prog[ip]) => substOut /= <<>>
    /\ LET args == Fields(prog[ip])
       IN  IF args = <<>>
           THEN /\ ip' = ip + 1
                /\ UNCHANGED <<vcalls, blockLog, spawned, stdout, rerr, rpc>>
           ELSE LET c == callFunc(args)
                IN  /\ vcalls' = Append(vcalls, VCall(args, c.ok))
                    /\ blockLog' = blockLog \o c.log
                    /\ IF ~c.ok
                       THEN /\ rerr' = c.err
                            /\ rpc' = "returned"
                            /\ UNCHANGED <<spawned, stdout, ip>>
                       ELSE /\ spawned' = Append(spawned, args)
                            /\ stdout' = Append(stdout, args[1])
                            /\ ip' = ip + 1
                            /\ UNCHANGED <<rerr, rpc>>
    /\ substOut' = <<>>
    /\ UNCHANGED <<config, call, ret, request, absWorkingDir, prog, shvars>>
    /\ UNCHANGED xvars

\* The program is finished: Run returns nil, or the exit status of the
\* last command when it is not zero.
InterpDone ==
    /\ rpc = "run" /\ ip > Len(prog)
    /\ rpc' = "returned"
    /\ \E status \in ExitStatuses :
        rerr' = IF status = 0 \/ spawned = <<>> THEN "" ELSE "exit status 1"
    /\ UNCHANGED <<config, call, ret, blockLog, request, absWorkingDir, prog,
                   ip, shvars, substOut, vcalls, spawned, stdout>>
    /\ UNCHANGED xvars

NextRunner ==
    \/ RunCommandStart
    \/ InterpAssign
    \/ InterpSubstitute
    \/ InterpCall
    \/ InterpDone

SpecRunner == Init /\ [][NextRunner]_vars

(***************************************************************************)
(* Pipelines.  The interpreter runs a pipeline e1 | e2 | ... | en as       *)
(* ((e1 | e2) | ...) | en: the runner of a pipeline starts a subshell for  *)
(* the left side in a goroutine, runs the right side itself, waits for the *)
(* goroutine and takes over the error of the subshell when it has none of  *)
(* its own.  Element i has its own runner; the runner of en is the one     *)
(* RunCommand created.                                                     *)
(***************************************************************************)
\* The commands between the "|" words of a statement.
RECURSIVE SplitPipeline(_, _)
SplitPipeline(stmt, cur) ==
    IF stmt = <<>> THEN << cur >>
    ELSE IF ~Head(stmt).quoted /\ Head(stmt).text = "|"
         THEN << cur >> \o SplitPipeline(Tail(stmt), <<>>)
    ELSE SplitPipeline(Tail(stmt), Append(cur, Head(stmt)))

\* The elements of the pipeline RunCommand parsed.
Elements == SplitPipeline(prog[1], <<>>)

PipeElements == { << "cat" >>, << "git", "cat" >>, << "cat", "/etc/x" >> }

RECURSIVE JoinPipe(_)
JoinPipe(elems) ==
    IF Len(elems) = 1 THEN elems[1]
    ELSE elems[1] \o << "|" >> \o JoinPipe(Tail(elems))

PipeSources ==
    {JoinPipe(elems) : elems \in SeqsUpTo(PipeElements, MaxPipe) \ {<<>>}}

PipeDirs == {"/tmp/subdir", "/etc"}

\* RunCommand on a pipeline, up to the start of the interpreter: every
\* element gets its runner and is ready to be dispatched.
PipeStart ==
    /\ rpc = "idle"
    /\ \E command \in PipeSources, workingDir \in PipeDirs :
        /\ request' = [command |-> command, workingDir |-> workingDir]
        /\ absWorkingDir' = Abs(workingDir)
        /\ IF PreExecutionError(command, workingDir) /= ""
           THEN /\ rerr' = PreExecutionError(command, workingDir)
                /\ rpc' = "returned"
                /\ UNCHANGED <<prog, pst, perr>>
           ELSE LET n == Len(SplitPipeline(Parse(command).prog[1], <<>>))
                IN  /\ prog' = Parse(command).prog
                    /\ pst' = [i \in 1..n |-> "ready"]
                    /\ perr' = [i \in 1..n |-> ""]
                    /\ rpc' = "pipe"
                    /\ UNCHANGED rerr
    /\ UNCHANGED <<config, call, ret, blockLog, ip, shvars, substOut, vcalls,
                   spawned, stdout>>
    /\ UNCHANGED outsidePipeline

\* The runner of element i dispatches its command: the call handler is
\* asked; the command is started when the handler returned no error, and
\* a handler error becomes the error of that runner.
PipeCall(i) ==
    /\ rpc = "pipe" /\ pst[i] = "ready"
    /\ LET args == Fields(Elements[i])
           c    == callFunc(args)
       IN  /\ vcalls' = Append(vcalls, VCall(args, c.ok))
           /\ blockLog' = blockLog \o c.log
           /\ IF ~c.ok
              THEN /\ perr' = [perr EXCEPT ![i] = c.err]
                   /\ pst' = [pst EXCEPT ![i] = "failed"]
                   /\ UNCHANGED spawned
              ELSE /\ spawned' = Append(spawned, args)
                   /\ pst' = [pst EXCEPT ![i] = "running"]
                   /\ UNCHANGED perr
    /\ UNCHANGED <<config, call, ret, rpc, request, absWorkingDir, prog, ip,
                   shvars, substOut, stdout, rerr>>
    /\ UNCHANGED outsidePipeline

\* The child of element i ends.
PipeExit(i) ==
    /\ rpc = "pipe" /\ pst[i] = "running"
    /\ pst' = [pst EXCEPT ![i] = "exited"]
    /\ UNCHANGED <<vvars, rvars, perr>>
    /\ UNCHANGED outsidePipeline

\* Mutation: the error of the subshell is dropped at the join.
PipeJoin_ErrorDropped(i) ==
    /\ rpc = "pipe" /\ pst[i] \in {"failed", "exited"}
    /\ i > 1 => pst[i - 1] = "joined"
    /\ pst' = [pst EXCEPT ![i] = "joined"]
    /\ UNCHANGED <<vvars, rvars, perr>>
    /\ UNCHANGED outsidePipeline

\* The runner of element i is done with its command and the subshell of
\* the elements to its left has ended: it keeps its own error, otherwise
\* takes the one of the subshell.
PipeJoin(i) ==
    /\ rpc = "pipe" /\ pst[i] \in {"failed", "exited"}
    /\ i > 1 => pst[i - 1] = "joined"
    /\ perr' = [perr EXCEPT ![i] = IF perr[i] /= "" \/ i = 1 THEN perr[i]
                                   ELSE perr[i - 1]]
    /\ pst' = [pst EXCEPT ![i] = "joined"]
    /\ UNCHANGED <<vvars, rvars>>
    /\ UNCHANGED outsidePipeline

\* Run returns: the error of RunCommand's runner, otherwise the exit
\* status of the last element when it is not zero.
PipeReturn ==
    /\ rpc = "pipe" /\ pst[Len(pst)] = "joined"
    /\ \E status \in ExitStatuses :
        rerr' = IF perr[Len(pst)] /= "" THEN perr[Len(pst)]
                ELSE IF status = 0 THEN "" ELSE "exit status 1"
    /\ rpc' = "returned"
    /\ UNCHANGED <<config, call, ret, blockLog, request, absWorkingDir, prog,
                   ip, shvars, substOut, vcalls, spawned, stdout, pvars>>
    /\ UNCHANGED outsidePipeline

NextPipeline ==
    \/ PipeStart
    \/ \E i \in 1..Len(pst) : PipeCall(i)
    \/ \E i \in 1..Len(pst) : PipeExit(i)
    \/ \E i \in 1..Len(pst) : PipeJoin(i)
    \/ PipeReturn

SpecPipeline == Init /\ [][NextPipeline]_vars

(***************************************************************************)
(* The deadline of a request.  RunCommand derives a context with a timeout *)
(* from the caller's context when maxExecutionTime is positive and hands   *)
(* it to Run.  The interpreter looks at the context before it dispatches a *)
(* command; the exec handler cancels the child when the context is done    *)
(* and then reports the error of the context.                              *)
(***************************************************************************)
DeadlineExceeded == "context deadline exceeded"

Canceled == "context canceled"

\* Mutation: the caller's context is handed to Run as it is.
Deadline_NotInstalled(maxTime) == 0

\* context.WithTimeout when MaxExecutionTime > 0: the deadline of the
\* context handed to Run, in seconds from now; 0 when none is installed.
Deadline(maxTime) == IF maxTime > 0 THEN maxTime ELSE 0

TimedSources == { << "cat" >>, << "git", "diff" >> }

\* RunCommand up to the start of the interpreter.
TimedStart ==
    /\ rpc = "idle"
    /\ \E command \in TimedSources, workingDir \in PipeDirs :
        /\ request' = [command |-> command, workingDir |-> workingDir]
        /\ absWorkingDir' = Abs(workingDir)
        /\ IF PreExecutionError(command, workingDir) /= ""
           THEN /\ rerr' = PreExecutionError(command, workingDir)
                /\ rpc' = "returned"
                /\ UNCHANGED <<prog, ip, ctx>>
           ELSE /\ prog' = Parse(command).prog
                /\ ip' = 1
                /\ ctx' = [deadline |-> Deadline(config.MaxExecutionTime),
                           err |-> ""]
                /\ rpc' = "timed"
                /\ UNCHANGED rerr
    /\ UNCHANGED <<config, call, ret, blockLog, shvars, substOut, vcalls,
                   spawned, stdout, clock, child>>
    /\ UNCHANGED outsideDeadline

\* A second passes.  The timer of the context fires at the deadline, not
\* later.
Tick ==
    /\ rpc = "timed"
    /\ clock < MaxClock
    /\ ctx.err /= "" \/ ctx.deadline = 0 \/ clock < ctx.deadline
    /\ clock' = clock + 1
    /\ UNCHANGED <<vvars, rvars, ctx, child>>
    /\ UNCHANGED outsideDeadline

\* The timer of the context fires.
DeadlineExpires ==
    /\ rpc = "timed"
    /\ ctx.err = "" /\ ctx.deadline > 0 /\ clock >= ctx.deadline
    /\ ctx' = [ctx EXCEPT !.err = DeadlineExceeded]
    /\ UNCHANGED <<vvars, rvars, clock, child>>
    /\ UNCHANGED outsideDeadline

\* The caller cancels its context; the derived context is cancelled too.
CallerCancels ==
    /\ rpc = "timed"
    /\ ctx.err = ""
    /\ ctx' = [ctx EXCEPT !.err = Canceled]
    /\ UNCHANGED <<vvars, rvars, clock, child>>
    /\ UNCHANGED outsideDeadline

\* The interpreter dispatches the command: it stops with the error of the
\* context when that is done, otherwise asks the call handler and starts
\* the child when the handler returned no error.
TimedCall ==
    /\ rpc = "timed" /\ ip = 1 /\ child = "none"
    /\ IF ctx.err /= ""
       THEN /\ rerr' = ctx.err
            /\ rpc' = "returned"
            /\ UNCHANGED <<vcalls, blockLog, spawned, child, ip>>
       ELSE LET args == Fields(prog[1])
                c    == callFunc(args)
            IN  /\ vcalls' = Append(vcalls, VCall(args, c.ok))
                /\ blockLog' = blockLog \o c.log
                /\ IF ~c.ok
                   THEN /\ rerr' = c.err
                        /\ rpc' = "returned"
                        /\ UNCHANGED <<spawned, child, ip>>
                   ELSE /\ spawned' = Append(spawned, args)
                        /\ child' = "running"
                        /\ ip' = 2
                        /\ UNCHANGED <<rerr, rpc>>
    /\ UNCHANGED <<config, call, ret, request, absWorkingDir, prog, shvars,
                   substOut, stdout, clock, ctx>>
    /\ UNCHANGED outsideDeadline

\* The child ends by itself while the context is live.
ChildExits ==
    /\ rpc = "timed" /\ child = "running"
    /\ ctx.err = ""
    /\ child' = "exited"
    /\ UNCHANGED <<vvars, rvars, clock, ctx>>
    /\ UNCHANGED outsideDeadline

\* The context is done while the child runs: the exec handler cancels the
\* child, and the child ends.
ChildCancelled ==
    /\ rpc = "timed" /\ child = "running"
    /\ ctx.err /= ""
    /\ child' = "cancelled"
    /\ UNCHANGED <<vvars, rvars, clock, ctx>>
    /\ UNCHANGED outsideDeadline

\* Run returns: the error of the context when the child was cancelled,
\* otherwise the exit status of the child when it is not zero.
TimedReturn ==
    /\ rpc = "timed" /\ child \in {"exited", "cancelled"}
    /\ \E status \in ExitStatuses :
        rerr' = IF child = "cancelled" THEN ctx.err
                ELSE IF status = 0 THEN "" ELSE "exit status 1"
    /\ stdout' = IF child = "exited" THEN Append(stdout, spawned[1][1])
                 ELSE stdout
    /\ rpc' = "returned"
    /\ UNCHANGED <<config, call, ret, blockLog, request, absWorkingDir, prog,
                   ip, shvars, substOut, vcalls, spawned, tvars>>
    /\ UNCHANGED outsideDeadline

NextDeadline ==
    \/ TimedStart
    \/ Tick
    \/ DeadlineExpires
    \/ CallerCancels
    \/ TimedCall
    \/ ChildExits
    \/ ChildCancelled
    \/ TimedReturn

SpecDeadline == Init /\ [][NextDeadline]_vars

\* Time passes, timers fire, the interpreter and the exec handler take
\* their steps, a signalled child ends.  A child that is not cancelled and
\* the caller are under no obligation.
FairSpecDeadline ==
    /\ SpecDeadline
    /\ WF_vars(Tick)
    /\ WF_vars(DeadlineExpires)
    /\ WF_vars(TimedCall)
    /\ WF_vars(ChildCancelled)
    /\ WF_vars(TimedReturn)

(***************************************************************************)
(* File opens and the environment.  The interpreter is created with        *)
(* RunCommand's open handler, with Dir(absWorkingDir) and with Env(nil).   *)
(* It calls the open handler with the path as written in the script for    *)
(* every redirection, before the command of the statement is dispatched;   *)
(* the default open handler resolves a relative path against the           *)
(* directory of the interpreter.  An interpreter given a nil environment   *)
(* takes a copy of the environment of the process.                         *)
(* The requests below name absolute working directories, for which         *)
(* filepath.Abs does not depend on the directory of the process.           *)
(***************************************************************************)
\* Position of the redirection operator in a statement, 0 when none.
RedirIndex(stmt) ==
    LET hits == {i \in 1..Len(stmt) : ~stmt[i].quoted /\ stmt[i].text = ">"}
    IN  IF hits = {} THEN 0 ELSE SetMin(hits)

\* The words of the command of a statement.
CommandWords(stmt) ==
    IF RedirIndex(stmt) = 0 THEN stmt
    ELSE SubSeq(stmt, 1, RedirIndex(stmt) - 1)

\* The path a statement redirects its output to.
RedirTarget(stmt) == stmt[RedirIndex(stmt) + 1].text

\* interp.DefaultOpenHandler: the file that is opened for path.
DefaultOpenHandler(path) ==
    IF path /= "" /\ ~IsAbs(path) THEN Join(absWorkingDir, path)
    ELSE Clean(path)

\* openHandler: the file opened, or the *os.PathError returned.
openHandler(path) ==
    LET absPath == AbsFrom(host.dir, path)
        fileDir == Dir(absPath)
        d       == IsDirectoryAllowed(fileDir)
    IN  IF ~d.allowed
        THEN [ok |-> FALSE, file |-> "",
              err |-> "open " \o path
                      \o ": access denied: file is outside allowed directories: "
                      \o d.reason]
        ELSE [ok |-> TRUE, file |-> DefaultOpenHandler(path), err |-> ""]

\* interp.Env(nil): the environment the interpreter starts with.
Env == host.env

\* Working directory and environment of the server process.
Hosts ==
    { [dir |-> d, env |-> e] :
        d \in {Getwd, "/home/u/srv"},
        e \in {{}, {"PATH=/usr/local/bin", "API_TOKEN=s3cr3t"}} }

OpenPaths == {"/tmp/test.txt", "out.txt", "../../x", "/etc/x", "/tmpfoo/x"}

HostSources ==
    { << "cat" >> } \cup { << "cat", ">", path >> : path \in OpenPaths }

InitHost ==
    /\ Constructed
    /\ host \in Hosts
    /\ NoLimiter

\* RunCommand up to and including the creation of the interpreter.
HostStart ==
    /\ rpc = "idle"
    /\ \E command \in HostSources, workingDir \in PipeDirs :
        /\ request' = [command |-> command, workingDir |-> workingDir]
        /\ absWorkingDir' = AbsFrom(host.dir, workingDir)
        /\ IF PreExecutionError(command, workingDir) /= ""
           THEN /\ rerr' = PreExecutionError(command, workingDir)
                /\ rpc' = "returned"
                /\ UNCHANGED <<prog, ip, ienv>>
           ELSE /\ prog' = Parse(command).prog
                /\ ip' = 1
                /\ ienv' = Env
                /\ rpc' = "host"
                /\ UNCHANGED rerr
    /\ UNCHANGED <<config, call, ret, blockLog, shvars, substOut, vcalls,
                   spawned, stdout, host, opened, stderr, spawnEnv>>
    /\ UNCHANGED outsideHost

\* The interpreter sets up the redirection of the statement: the open
\* handler is called; its error is printed, the statement fails and its
\* command is not dispatched.
HostRedirect ==
    /\ rpc = "host" /\ ip = 1
    /\ RedirIndex(prog[1]) /= 0
    /\ opened = <<>> /\ stderr = <<>>
    /\ LET o == openHandler(RedirTarget(prog[1]))
       IN  IF o.ok
           THEN /\ opened' = Append(opened, o.file)
                /\ UNCHANGED <<stderr, ip>>
           ELSE /\ stderr' = Append(stderr, o.err)
                /\ ip' = 2
                /\ UNCHANGED opened
    /\ UNCHANGED <<config, call, ret, blockLog, rpc, request, absWorkingDir,
                   prog, shvars, substOut, vcalls, spawned, stdout, rerr, host,
                   ienv, spawnEnv>>
    /\ UNCHANGED outsideHost

\* The interpreter dispatches the command of the statement; the child
\* gets the environment of the interpreter.
HostCall ==
    /\ rpc = "host" /\ ip = 1
    /\ RedirIndex(prog[1]) /= 0 => opened /= <<>>
    /\ LET args == Fields(CommandWords(prog[1]))
           c    == callFunc(args)
       IN  /\ vcalls' = Append(vcalls, VCall(args, c.ok))
           /\ blockLog' = blockLog \o c.log
           /\ IF ~c.ok
              THEN /\ rerr' = c.err
                   /\ rpc' = "returned"
                   /\ UNCHANGED <<spawned, spawnEnv, ip>>
              ELSE /\ spawned' = Append(spawned, args)
                   /\ spawnEnv' = Append(spawnEnv, ienv)
                   /\ ip' = 2
                   /\ UNCHANGED <<rerr, rpc>>
    /\ UNCHANGED <<config, call, ret, request, absWorkingDir, prog, shvars,
                   substOut, stdout, host, ienv, opened, stderr>>
    /\ UNCHANGED outsideHost

\* Run returns: the exit status when it is not zero; a statement whose
\* redirection failed has status 1.
HostDone ==
    /\ rpc = "host" /\ ip = 2
    /\ \E status \in ExitStatuses :
        rerr' = IF stderr /= <<>> \/ status /= 0 THEN "exit status 1" ELSE ""
    /\ rpc' = "returned"
    /\ UNCHANGED <<config, call, ret, blockLog, request, absWorkingDir, prog,
                   ip, shvars, substOut, vcalls, spawned, stdout, hvars>>
    /\ UNCHANGED outsideHost

NextHost ==
    \/ HostStart
    \/ HostRedirect
    \/ HostCall
    \/ HostDone

SpecHost == InitHost /\ [][NextHost]_vars

(***************************************************************************)
(* An OutputLimiter in use: constructed with a limit, then written to.     *)
(***************************************************************************)
Limits == {0, 2, 3}

Chunks == {"", "a", "bc", "def"}

InitLimiter ==
    /\ Constructed
    /\ host = DefaultHost
    /\ \E maxBytes \in Limits : ol = NewOutputLimiter(maxBytes)
    /\ sink = ""
    /\ wret = NoWrite
    /\ input = ""
    /\ nwrites = 0

LimiterWrite ==
    /\ nwrites < MaxWrites
    /\ \E p \in Chunks :
        /\ ol' = Write(ol, p).ol
        /\ sink' = sink \o Write(ol, p).out
        /\ wret' = [p |-> p, n |-> Write(ol, p).n, err |-> Write(ol, p).err]
        /\ input' = input \o p
    /\ nwrites' = nwrites + 1
    /\ UNCHANGED <<vvars, rvars>>
    /\ UNCHANGED outsideLimiter

NextLimiter == LimiterWrite

SpecLimiter == InitLimiter /\ [][NextLimiter]_vars

(***************************************************************************)
(* Server.handleRunCommand, for requests handled at the same time.         *)
(***************************************************************************)
ServerSources == { <<>>, << "cat" >>, << "git", "cat" >> }

ServerDirs == PipeDirs \cup {""}

\* What the child of request q writes at a time.
Chunk(q) == q \o q \o q

\* The parameters are checked and the outputBuffer is created.
ServerAccept(q) ==
    /\ sreq[q].pc = "new"
    /\ \E commandStr \in ServerSources, directory \in ServerDirs :
        IF commandStr = <<>>
        THEN sreq' = [sreq EXCEPT ![q].pc = "done",
                        ![q].result = [isError |-> TRUE,
                          text |-> "Command parameter must be a non-empty string"]]
        ELSE IF directory = ""
        THEN sreq' = [sreq EXCEPT ![q].pc = "done",
                        ![q].result = [isError |-> TRUE,
                          text |-> "Directory parameter must be a non-empty string"]]
        ELSE sreq' = [sreq EXCEPT ![q].pc = "accepted",
                                  ![q].command = commandStr,
                                  ![q].directory = directory]
    /\ bufs' = [bufs EXCEPT ![q] = ""]
    /\ UNCHANGED <<vvars, rvars, mutex, rw, lims>>
    /\ UNCHANGED outsideServer

\* Mutation: the request does not wait for the lock.
ServerLock_NoWait(q) ==
    /\ sreq[q].pc = "accepted"
    /\ mutex' = q
    /\ sreq' = [sreq EXCEPT ![q].pc = "locked"]
    /\ UNCHANGED <<vvars, rvars, rw, lims, bufs>>
    /\ UNCHANGED outsideServer

\* s.cmdMutex.Lock()
ServerLock(q) ==
    /\ sreq[q].pc = "accepted"
    /\ mutex = ""
    /\ mutex' = q
    /\ sreq' = [sreq EXCEPT ![q].pc = "locked"]
    /\ UNCHANGED <<vvars, rvars, rw, lims, bufs>>
    /\ UNCHANGED outsideServer

\* s.runner.SetOutputs(outputBuffer, outputBuffer)
SetOutputs(q) ==
    /\ sreq[q].pc = "locked"
    /\ IF config.MaxOutputSize > 0
       THEN /\ lims' = [lims EXCEPT
                          ![q] = [stdout |-> NewOutputLimiter(config.MaxOutputSize),
                                  stderr |-> NewOutputLimiter(config.MaxOutputSize)]]
            /\ rw' = [stdout |-> WriterRef(q, "stdout", TRUE),
                      stderr |-> WriterRef(q, "stderr", TRUE)]
       ELSE /\ rw' = [stdout |-> WriterRef(q, "stdout", FALSE),
                      stderr |-> WriterRef(q, "stderr", FALSE)]
            /\ UNCHANGED lims
    /\ sreq' = [sreq EXCEPT ![q].pc = "set"]
    /\ UNCHANGED <<vvars, rvars, mutex, bufs>>
    /\ UNCHANGED outsideServer

\* s.runner.RunCommand up to and including interp.New, which takes the
\* writers the runner holds at that moment.
ServerRunCommand(q) ==
    /\ sreq[q].pc = "set"
    /\ LET e == PreExecutionError(sreq[q].command, sreq[q].directory)
       IN  IF e /= ""
           THEN sreq' = [sreq EXCEPT ![q].pc = "returning", ![q].err = e]
           ELSE sreq' = [sreq EXCEPT
                           ![q].pc = "interp",
                           ![q].absWorkingDir = Abs(sreq[q].directory),
                           ![q].stdio = rw]
    /\ UNCHANGED <<vvars, rvars, mutex, rw, lims, bufs>>
    /\ UNCHANGED outsideServer

\* The interpreter dispatches the command: callFunc validates it.
ServerCall(q) ==
    /\ sreq[q].pc = "interp"
    /\ LET args == Fields(Parse(sreq[q].command).prog[1])
           v    == ValidateCommand(args[1], Tail(args), sreq[q].absWorkingDir)
       IN  /\ blockLog' = blockLog \o v.log
           /\ IF v.allowed
              THEN sreq' = [sreq EXCEPT ![q].pc = "child"]
              ELSE sreq' = [sreq EXCEPT ![q].pc = "returning",
                                        ![q].err = v.reason]
    /\ UNCHANGED <<config, call, ret, rvars, mutex, rw, lims, bufs>>
    /\ UNCHANGED outsideServer

\* The child writes to the stdout or the stderr of its interpreter.
ServerChildWrite(q) ==
    /\ sreq[q].pc = "child"
    /\ sreq[q].nchunks < MaxChunks
    /\ \E stream \in {"stdout", "stderr"} :
        LET w == sreq[q].stdio[stream]
        IN  IF w.limited
            THEN LET r == Write(lims[w.to][w.stream], Chunk(q))
                 IN  /\ lims' = [lims EXCEPT ![w.to][w.stream] = r.ol]
                     /\ bufs' = [bufs EXCEPT ![w.to] = @ \o r.out]
            ELSE /\ bufs' = [bufs EXCEPT ![w.to] = @ \o Chunk(q)]
                 /\ UNCHANGED lims
    /\ sreq' = [sreq EXCEPT ![q].nchunks = @ + 1,
                            ![q].written = @ \o Chunk(q)]
    /\ UNCHANGED <<vvars, rvars, mutex, rw>>
    /\ UNCHANGED outsideServer

\* The child exits and Run returns its status.
ServerChildExit(q) ==
    /\ sreq[q].pc = "child"
    /\ \E status \in ExitStatuses :
        sreq' = [sreq EXCEPT ![q].pc = "returning",
                             ![q].err = IF status /= 0 THEN "exit status 1"
                                        ELSE ""]
    /\ UNCHANGED <<vvars, rvars, mutex, rw, lims, bufs>>
    /\ UNCHANGED outsideServer

\* Mutation: Unlock is not deferred, the error return leaves the lock held.
ServerReturn_LockKeptOnError(q) ==
    /\ sreq[q].pc = "returning"
    /\ sreq' = [sreq EXCEPT
                  ![q].pc = "done",
                  ![q].result =
                      IF sreq[q].err /= ""
                      THEN [isError |-> TRUE,
                            text |-> "Command execution failed: " \o sreq[q].err]
                      ELSE [isError |-> FALSE, text |-> bufs[q]]]
    /\ mutex' = IF sreq[q].err /= "" THEN mutex ELSE ""
    /\ UNCHANGED <<vvars, rvars, rw, lims, bufs>>
    /\ UNCHANGED outsideServer

\* handleRunCommand returns the result and the deferred Unlock runs.
ServerReturn(q) ==
    /\ sreq[q].pc = "returning"
    /\ sreq' = [sreq EXCEPT
                  ![q].pc = "done",
                  ![q].result =
                      IF sreq[q].err /= ""
                      THEN [isError |-> TRUE,
                            text |-> "Command execution failed: " \o sreq[q].err]
                      ELSE [isError |-> FALSE, text |-> bufs[q]]]
    /\ mutex' = ""
    /\ UNCHANGED <<vvars, rvars, rw, lims, bufs>>
    /\ UNCHANGED outsideServer

NextServer ==
    \E q \in Reqs :
        \/ ServerAccept(q)
        \/ ServerLock(q)
        \/ SetOutputs(q)
        \/ ServerRunCommand(q)
        \/ ServerCall(q)
        \/ ServerChildWrite(q)
        \/ ServerChildExit(q)
        \/ ServerReturn(q)

SpecServer == Init /\ [][NextServer]_vars

(***************************************************************************)
(* Loading configuration documents.                                        *)
(***************************************************************************)
\* Elements of an allowCommands list, as in TestMixedCommandFormats.
AllowElements ==
    { JSONString("ls"), JSONString("cat"),
      JSONObject([command |-> "ls", subCommands |-> <<>>,
                  denySubCommands |-> <<>>]),
      JSONObject([command |-> "git", subCommands |-> <<"status", "pull">>,
                  denySubCommands |-> <<"push">>]) }

\* Elements of a denyCommands list.
DenyElements ==
    { JSONString("rm"),
      JSONObject([command |-> "rm", message |-> ""]),
      JSONObject([command |-> "sudo",
                  message |-> "Elevated privileges not allowed"]) }

Documents ==
    { [ allowedDirectories  |-> << "/home", "/tmp" >>,
        allowCommands       |-> allow,
        denyCommands        |-> deny,
        defaultErrorMessage |-> "Command not allowed",
        maxExecutionTime    |-> 60 ] :
      allow \in SeqsUpTo(AllowElements, MaxRules),
      deny \in SeqsUpTo(DenyElements, MaxRules) }

CallLoadConfigFromFile ==
    /\ loaded.op = "none"
    /\ \E d \in Documents :
        /\ doc' = d
        /\ loaded' = LoadConfigFromFile(d)
    /\ UNCHANGED <<vvars, rvars>>
    /\ UNCHANGED outsideLoader

CallUnmarshalAllowCommands ==
    /\ loaded.op = "none"
    /\ \E d \in Documents :
        /\ doc' = d
        /\ loaded' = UnmarshalAllowCommands(d.allowCommands)
    /\ UNCHANGED <<vvars, rvars>>
    /\ UNCHANGED outsideLoader

CallUnmarshalDenyCommands ==
    /\ loaded.op = "none"
    /\ \E d \in Documents :
        /\ doc' = d
        /\ loaded' = UnmarshalDenyCommands(d.denyCommands)
    /\ UNCHANGED <<vvars, rvars>>
    /\ UNCHANGED outsideLoader

NextLoader ==
    \/ CallLoadConfigFromFile
    \/ CallUnmarshalAllowCommands
    \/ CallUnmarshalDenyCommands

SpecLoader == Init /\ [][NextLoader]_vars

(***************************************************************************)
(* The meta-command parsers called on their own.                           *)
(***************************************************************************)
\* xargs tokens: value-taking flags (short, long, -I), a flag with its
\* value attached, a plain flag, the exec flags, commands and a value.
XargsPool ==
    {"-n", "--max-args", "-I", "-I{}", "-0", "-exec", "--exec", "cat", "1"}

XargsArgLists == SeqsUpTo(XargsPool, MaxArgs)

\* find tokens: the exec flags, a command, the placeholder, terminators.
FindPool == {"-exec", "-execdir", "rm", "{}", ";", "+"}

FindArgLists ==
    SeqsUpTo(FindPool, MaxFindArgs)
    \cup { << "-exec", "cat", "{}", "\\;" >>, << "-name", "*.txt", "-exec" >> }

\* The parsers hold no state and read no policy.
InitParsers ==
    /\ Init
    /\ config = CHOOSE c \in Configs : c.BlockLogPath = ""

CallParseXargsCommand ==
    /\ call.op = "none"
    /\ \E args \in XargsArgLists :
        /\ call' = [op |-> "ParseXargsCommand", cmd |-> "xargs", args |-> args,
                    path |-> "", dir |-> ""]
        /\ ret' = ParseXargsCommand(args)
    /\ UNCHANGED <<config, blockLog, rvars, xvars>>

CallParseFindExecArgs ==
    /\ call.op = "none"
    /\ \E args \in FindArgLists :
        /\ call' = [op |-> "ParseFindExecArgs", cmd |-> "find", args |-> args,
                    path |-> "", dir |-> ""]
        /\ ret' = ParseFindExecArgs(args)
    /\ UNCHANGED <<config, blockLog, rvars, xvars>>

NextParsers ==
    \/ CallParseXargsCommand
    \/ CallParseFindExecArgs

SpecParsers == InitParsers /\ [][NextParsers]_vars

(***************************************************************************)
(* Meta-commands nested in meta-commands.                                  *)
(***************************************************************************)
NestPool == {"xargs", "-0", "cat"}

NestedArgLists == SeqsUpTo(NestPool, MaxNest)

CallValidateNested ==
    /\ call.op = "none"
    /\ \E args \in NestedArgLists, workDir \in WorkDirs :
        /\ call' = [op |-> "ValidateCommand", cmd |-> "xargs", args |-> args,
                    path |-> "", dir |-> workDir]
        /\ ret' = Decision(ValidateCommand("xargs", args, workDir).allowed,
                           ValidateCommand("xargs", args, workDir).reason)
        /\ blockLog' = blockLog \o ValidateCommand("xargs", args, workDir).log
    /\ UNCHANGED <<config, rvars, xvars>>

NextNesting == CallValidateNested

SpecNesting == Init /\ [][NextNesting]_vars

(***************************************************************************)
(* OutputLimiter.Write called by two goroutines at once: the method takes  *)
(* no lock, so its statements interleave, and a += is a read and a write.  *)
(***************************************************************************)
RaceLimits == {2, 3}

\* What goroutine g writes: its own letter, once or twice.
RaceChunks(g) == {g, g \o g}

InitRace ==
    /\ Constructed
    /\ config = CHOOSE c \in Configs : c.BlockLogPath = ""
    /\ host = DefaultHost
    /\ \E maxBytes \in RaceLimits : ol = NewOutputLimiter(maxBytes)
    /\ sink = ""
    /\ wret = NoWrite
    /\ input = ""
    /\ nwrites = 0

RaceStep(g, pc) == [gor EXCEPT ![g].pc = pc]

\* Write(p) is entered.
RaceCall(g) ==
    /\ gor[g].pc = "idle"
    /\ gor[g].calls < MaxCalls
    /\ \E p \in RaceChunks(g) :
        /\ gor' = [gor EXCEPT ![g].pc = "total.read", ![g].p = p,
                              ![g].calls = @ + 1]
        /\ input' = input \o p
    /\ nwrites' = nwrites + 1
    /\ UNCHANGED <<vvars, rvars, ol, sink, wret>>
    /\ UNCHANGED outsideRace

\* ol.TotalInputBytes += len(p): the read.
RaceReadTotal(g) ==
    /\ gor[g].pc = "total.read"
    /\ gor' = [gor EXCEPT ![g].pc = "total.write", ![g].t = ol.TotalInputBytes]
    /\ UNCHANGED <<vvars, rvars, lvars>>
    /\ UNCHANGED outsideRace

\* ol.TotalInputBytes += len(p): the write.
RaceWriteTotal(g) ==
    /\ gor[g].pc = "total.write"
    /\ ol' = [ol EXCEPT !.TotalInputBytes = gor[g].t + Len(gor[g].p)]
    /\ gor' = RaceStep(g, "truncated")
    /\ UNCHANGED <<vvars, rvars, sink, wret, input, nwrites>>
    /\ UNCHANGED outsideRace

\* if ol.Truncated { return len(p), nil }
RaceCheckTruncated(g) ==
    /\ gor[g].pc = "truncated"
    /\ IF ol.Truncated
       THEN /\ gor' = RaceStep(g, "idle")
            /\ wret' = [p |-> gor[g].p, n |-> Len(gor[g].p), err |-> ""]
       ELSE /\ gor' = RaceStep(g, "remaining")
            /\ UNCHANGED wret
    /\ UNCHANGED <<vvars, rvars, ol, sink, input, nwrites>>
    /\ UNCHANGED outsideRace

\* remaining := ol.MaxBytes - ol.BytesWritten, and the branch it selects.
RaceReadRemaining(g) ==
    /\ gor[g].pc = "remaining"
    /\ LET remaining == ol.MaxBytes - ol.BytesWritten
       IN  gor' = [gor EXCEPT
                     ![g].remaining = remaining,
                     ![g].pc = IF remaining <= 0 THEN "full.mark"
                               ELSE IF Len(gor[g].p) > remaining
                               THEN "cross.forward"
                               ELSE "fit.forward"]
    /\ UNCHANGED <<vvars, rvars, lvars>>
    /\ UNCHANGED outsideRace

\* remaining <= 0: if !ol.Truncated, the marker is written; otherwise
\* return len(p), nil
RaceFullMark(g) ==
    /\ gor[g].pc = "full.mark"
    /\ IF ~ol.Truncated
       THEN /\ sink' = sink \o getTruncationMessage(ol)
            /\ gor' = RaceStep(g, "full.set")
            /\ UNCHANGED wret
       ELSE /\ gor' = RaceStep(g, "idle")
            /\ wret' = [p |-> gor[g].p, n |-> Len(gor[g].p), err |-> ""]
            /\ UNCHANGED sink
    /\ UNCHANGED <<vvars, rvars, ol, input, nwrites>>
    /\ UNCHANGED outsideRace

\* remaining <= 0: ol.Truncated = true; return len(p), nil
RaceFullSet(g) ==
    /\ gor[g].pc = "full.set"
    /\ ol' = [ol EXCEPT !.Truncated = TRUE]
    /\ wret' = [p |-> gor[g].p, n |-> Len(gor[g].p), err |-> ""]
    /\ gor' = RaceStep(g, "idle")
    /\ UNCHANGED <<vvars, rvars, sink, input, nwrites>>
    /\ UNCHANGED outsideRace

\* len(p) > remaining: ol.Writer.Write(p[:remaining]), and the read of
\* ol.BytesWritten += written.
RaceCrossForward(g) ==
    /\ gor[g].pc = "cross.forward"
    /\ sink' = sink \o SubSeq(gor[g].p, 1, gor[g].remaining)
    /\ gor' = [gor EXCEPT ![g].pc = "cross.count", ![g].t = ol.BytesWritten]
    /\ UNCHANGED <<vvars, rvars, ol, wret, input, nwrites>>
    /\ UNCHANGED outsideRace

\* len(p) > remaining: the write of ol.BytesWritten += written, and
\* ol.Truncated = true.
RaceCrossCount(g) ==
    /\ gor[g].pc = "cross.count"
    /\ ol' = [ol EXCEPT !.BytesWritten = gor[g].t + gor[g].remaining,
                        !.Truncated = TRUE]
    /\ gor' = RaceStep(g, "cross.mark")
    /\ UNCHANGED <<vvars, rvars, sink, wret, input, nwrites>>
    /\ UNCHANGED outsideRace

\* len(p) > remaining: the marker is written; return len(p), err
RaceCrossMark(g) ==
    /\ gor[g].pc = "cross.mark"
    /\ sink' = sink \o getTruncationMessage(ol)
    /\ wret' = [p |-> gor[g].p, n |-> Len(gor[g].p), err |-> ""]
    /\ gor' = RaceStep(g, "idle")
    /\ UNCHANGED <<vvars, rvars, ol, input, nwrites>>
    /\ UNCHANGED outsideRace

\* p fits: ol.Writer.Write(p), and the read of ol.BytesWritten += written.
RaceFitForward(g) ==
    /\ gor[g].pc = "fit.forward"
    /\ sink' = sink \o gor[g].p
    /\ gor' = [gor EXCEPT ![g].pc = "fit.count", ![g].t = ol.BytesWritten]
    /\ UNCHANGED <<vvars, rvars, ol, wret, input, nwrites>>
    /\ UNCHANGED outsideRace

\* p fits: the write of ol.BytesWritten += written; return written, err
RaceFitCount(g) ==
    /\ gor[g].pc = "fit.count"
    /\ ol' = [ol EXCEPT !.BytesWritten = gor[g].t + Len(gor[g].p)]
    /\ wret' = [p |-> gor[g].p, n |-> Len(gor[g].p), err |-> ""]
    /\ gor' = RaceStep(g, "idle")
    /\ UNCHANGED <<vvars, rvars, sink, input, nwrites>>
    /\ UNCHANGED outsideRace

NextRace ==
    \E g \in Writers :
        \/ RaceCall(g)
        \/ RaceReadTotal(g)
        \/ RaceWriteTotal(g)
        \/ RaceCheckTruncated(g)
        \/ RaceReadRemaining(g)
        \/ RaceFullMark(g)
        \/ RaceFullSet(g)
        \/ RaceCrossForward(g)
        \/ RaceCrossCount(g)
        \/ RaceCrossMark(g)
        \/ RaceFitForward(g)
        \/ RaceFitCount(g)

SpecRace == InitRace /\ [][NextRace]_vars

(***************************************************************************)
(* Properties of the validator                                             *)
(***************************************************************************)
AllowNames ==
    {config.AllowCommands[i].Command : i \in 1..Len(config.AllowCommands)}

DenyNames ==
    {config.DenyCommands[i].Command : i \in 1..Len(config.DenyCommands)}

Validating == call.op = "ValidateCommand"

\* The invocation and the nested invocations ValidateCommand recurses into.
RECURSIVE Invocations(_, _)
Invocations(cmd, args) ==
    {<<cmd, args>>} \cup
    IF cmd = "xargs" /\ ParseXargsCommand(args).valid
    THEN Invocations(ParseXargsCommand(args).cmd, ParseXargsCommand(args).args)
    ELSE {}

\* C1: an allowed decision implies that the command name, and the command
\* name of every nested invocation xargs recursed into, is an entry of
\* allow_commands and is not an entry of deny_commands.
C1_AllowedImpliesListed ==
    (Validating /\ ret.allowed) =>
        \A inv \in Invocations(call.cmd, call.args) :
            inv[1] \in AllowNames /\ inv[1] \notin DenyNames

C1_Witness ==
    /\ Validating /\ ret.allowed
    /\ call.cmd = "xargs"
    /\ Cardinality(Invocations(call.cmd, call.args)) = 3

\* The message of the deny entry for cmd (the first one when cmd is listed
\* more than once), default_reason when the entry has none.
DenyMessage(cmd) ==
    LET first == CHOOSE i \in 1..Len(config.DenyCommands) :
                     /\ config.DenyCommands[i].Command = cmd
                     /\ \A j \in 1..(i - 1) : config.DenyCommands[j].Command /= cmd
        e     == config.DenyCommands[first]
    IN  IF e.Message = "" THEN config.DefaultErrorMessage ELSE e.Message

\* C2: deny-first. A command listed in deny_commands is denied for every
\* argument vector and working directory, also when it is allow-listed,
\* with reason `command "X" is denied: ` followed by the entry's message
\* or, when it has none, by default_reason.
C2_DenyFirst ==
    (Validating /\ call.cmd \in DenyNames) =>
        /\ ~ret.allowed
        /\ ret.reason = "command \"" \o call.cmd \o "\" is denied: "
                        \o DenyMessage(call.cmd)

C2_Witness ==
    /\ Validating
    /\ call.cmd = "xargs"
    /\ call.cmd \in DenyNames /\ call.cmd \in AllowNames
    /\ ret.reason = "command \"xargs\" is denied: Command not allowed by security policy"

\* path is an allowed directory or lies below one.
IsWithin(path, dir) ==
    path = dir \/ HasPrefix(path, IF dir = "/" THEN "/" ELSE dir \o "/")

HasAllowedPrefix(path) ==
    \E i \in 1..Len(config.AllowedDirectories) :
        HasPrefix(path, config.AllowedDirectories[i])

\* C3: in an allowed invocation, xargs included, every path-like argument
\* that is not a flag resolves (joined with cwd when relative, "." and ".."
\* collapsed) to a path with an allowed_dirs entry as prefix.
C3_PathArgsInAllowedDirs ==
    (Validating /\ ret.allowed) =>
        \A i \in 1..Len(call.args) :
            (isPathLike(call.args[i]) /\ ~HasPrefix(call.args[i], "-")) =>
                HasAllowedPrefix(ResolvePath(call.args[i], call.dir))

\* The same statement for every command but the meta-command xargs.
C3_PathArgsOfPlainCommands ==
    (Validating /\ ret.allowed /\ call.cmd /= "xargs") =>
        \A i \in 1..Len(call.args) :
            (isPathLike(call.args[i]) /\ ~HasPrefix(call.args[i], "-")) =>
                HasAllowedPrefix(ResolvePath(call.args[i], call.dir))

\* C4: IsPathInAllowedDirectory decides on the normalised path only: the
\* decision is the prefix test on the path joined with base when relative
\* and with "." and ".." collapsed, two inputs with the same normalised
\* path get the same decision, and an empty path is denied.  With /home
\* and /tmp allowed, /tmp/../etc/x and ../../../etc/passwd are denied and
\* /tmp/../tmp/./file.txt and ../file.txt from /tmp/subdir are allowed.
C4_DecidesOnNormalisedPath ==
    call.op = "IsPathInAllowedDirectory" =>
        /\ call.path = "" => ~ret.allowed
        /\ call.path /= "" =>
            /\ ret.allowed <=> HasAllowedPrefix(ResolvePath(call.path, call.dir))
            /\ \A p \in PathInputs \ {""}, b \in BaseDirs :
                 ResolvePath(p, b) = ResolvePath(call.path, call.dir) =>
                     IsPathInAllowedDirectory(p, b).allowed = ret.allowed
        /\ config.AllowedDirectories = <<"/home", "/tmp">> =>
            /\ call.path = "/tmp/../etc/x" => ~ret.allowed
            /\ (call.path = "../../../etc/passwd"
                /\ call.dir \in {"/tmp/subdir", "/srv/go/pkg/validator"})
                   => ~ret.allowed
            /\ call.path = "/tmp/../tmp/./file.txt" => ret.allowed
            /\ (call.path = "../file.txt" /\ call.dir = "/tmp/subdir")
                   => ret.allowed

C4_Witness ==
    /\ call.op = "IsPathInAllowedDirectory"
    /\ call.path = "/tmp/../etc/x"
    /\ config.AllowedDirectories = <<"/home", "/tmp">>
    /\ ~ret.allowed
    /\ ret.reason = "path \"/tmp/../etc/x\" is outside of allowed directories: Command not allowed by security policy"

\* C5: the directory check and the path check accept a path only if it is
\* an allowed directory or lies below one; a path that merely begins with
\* the text of an allowed directory (/tmpfoo/x beside /tmp) is rejected.
C5_OnlyDescendantsAccepted ==
    /\ (call.op = "IsDirectoryAllowed" /\ ret.allowed) =>
           \E i \in 1..Len(config.AllowedDirectories) :
               IsWithin(Clean(call.dir), config.AllowedDirectories[i])
    /\ (call.op = "IsPathInAllowedDirectory" /\ ret.allowed) =>
           \E i \in 1..Len(config.AllowedDirectories) :
               IsWithin(ResolvePath(call.path, call.dir),
                        config.AllowedDirectories[i])

\* The sub-command gate applies to cmd: it is not the meta-command, not
\* denied by name, and has an allow entry.
AllowEntry(cmd) == config.AllowCommands[AllowIndex(cmd)]

SubNotAllowed(cmd, sub) ==
    "subcommand \"" \o sub \o "\" is not allowed for command \"" \o cmd \o "\""

SubDenied(cmd, sub) ==
    "subcommand \"" \o sub \o "\" is denied for command \"" \o cmd \o "\""

PathArgsOk ==
    \A i \in 1..Len(call.args) :
        (isPathLike(call.args[i]) /\ ~HasPrefix(call.args[i], "-")) =>
            HasAllowedPrefix(ResolvePath(call.args[i], call.dir))

NestedVerdict ==
    ValidateCommand(ParseXargsCommand(call.args).cmd,
                    ParseXargsCommand(call.args).args, call.dir)

\* C8: an xargs invocation is allowed only if xargs is not denied, is
\* allow-listed, and the nested invocation is allowed with the same cwd;
\* a nested denial with reason R gives the reason "xargs would execute
\* disallowed command: " followed by R; xargs denied or not allow-listed
\* itself gives the plain `command "xargs" ...` reason.
C8_XargsPropagatesNested ==
    (Validating /\ call.cmd = "xargs") =>
        /\ ret.allowed =>
            /\ "xargs" \notin DenyNames /\ "xargs" \in AllowNames
            /\ ParseXargsCommand(call.args).valid
            /\ NestedVerdict.allowed
        /\ ("xargs" \notin DenyNames /\ "xargs" \in AllowNames
            /\ ParseXargsCommand(call.args).valid /\ ~NestedVerdict.allowed) =>
            /\ ~ret.allowed
            /\ ret.reason = "xargs would execute disallowed command: "
                            \o NestedVerdict.reason
        /\ "xargs" \in DenyNames =>
            ret.reason = "command \"xargs\" is denied: " \o DenyMessage("xargs")
        /\ ("xargs" \notin DenyNames /\ "xargs" \notin AllowNames) =>
            ret.reason = "command \"xargs\" is not permitted: "
                         \o config.DefaultErrorMessage
        /\ (call.args = <<"cat", "/etc/x">> /\ "xargs" \in AllowNames
            /\ "cat" \in AllowNames /\ DenyNames = {}) =>
            ret.reason = "xargs would execute disallowed command: path \"/etc/x\" is outside of allowed directories: Command not allowed by security policy"

C8_Witness ==
    /\ Validating /\ call.cmd = "xargs"
    /\ call.args = <<"cat", "../file.txt">>
    /\ call.dir = "/tmp"
    /\ ret.reason = "xargs would execute disallowed command: path \"../file.txt\" is outside of allowed directories: Command not allowed by security policy"

(***************************************************************************)
(* Properties of the runner                                                *)
(***************************************************************************)
\* The argument vectors of the validator calls that returned allowed.
RECURSIVE AllowedArgvs(_)
AllowedArgvs(calls) ==
    IF calls = <<>> THEN <<>>
    ELSE (IF Head(calls).allowed
          THEN << << Head(calls).cmd >> \o Head(calls).args >>
          ELSE <<>>) \o AllowedArgvs(Tail(calls))

\* C9: the exec hook is called for every command the interpreter is about
\* to run, with the argv obtained after expansion, and calls
\* ValidateCommand(argv[0], argv[1:], cwd_abs): the commands run are
\* exactly those for which the call returned allowed, and a denial ends
\* the run with the denial reason as error, the command not being run.
C9_ExecHookGuardsEveryCommand ==
    /\ spawned = AllowedArgvs(vcalls)
    /\ \A i \in 1..Len(vcalls) :
        /\ vcalls[i].dir = Abs(request.workingDir)
        /\ vcalls[i].allowed =
               ValidateCommand(vcalls[i].cmd, vcalls[i].args,
                               Abs(request.workingDir)).allowed
        /\ ~HasPrefix(vcalls[i].cmd, "$")
        /\ \A j \in 1..Len(vcalls[i].args) : ~HasPrefix(vcalls[i].args[j], "$")
        /\ ~vcalls[i].allowed =>
            /\ i = Len(vcalls)
            /\ rpc = "returned"
            /\ rerr = ValidateCommand(vcalls[i].cmd, vcalls[i].args,
                                      Abs(request.workingDir)).reason
    /\ (vcalls /= <<>>
        /\ request.command = << "X=xargs", ";", "$X", "cat", "/etc/x" >>) =>
           /\ vcalls[1].cmd = "xargs" /\ vcalls[1].args = << "cat", "/etc/x" >>
           /\ spawned = <<>> /\ rerr /= ""

C9_Witness ==
    /\ rpc = "returned"
    /\ request.command = << "X=xargs", ";", "git", "$(diff)" >>
    /\ Len(vcalls) = 2
    /\ spawned = << << "diff" >> >>
    /\ vcalls[2].cmd = "git" /\ vcalls[2].args = << "diff" >>
    /\ rerr = "subcommand \"diff\" is not allowed for command \"git\""

\* The source has a quote that is never closed.
OpenQuote(command) ==
    Cardinality({i \in 1..Len(command) : command[i] = "'"}) % 2 = 1

\* C10: a working directory the directory check rejects, or a source that
\* does not parse, makes RunCommand return an error before anything is
\* interpreted: no validator call, no child, no output; the directory
\* check comes first, so a request with both faults reports the
\* directory error, and a parse failure reads "parse error: ...".
C10_PreExecutionFailuresAreFatal ==
    LET dirOk == HasAllowedPrefix(Abs(request.workingDir))
    IN  (rpc /= "idle" /\ (~dirOk \/ OpenQuote(request.command))) =>
            /\ rpc = "returned"
            /\ rerr /= ""
            /\ vcalls = <<>> /\ spawned = <<>> /\ stdout = <<>>
            /\ blockLog = <<>>
            /\ ~dirOk => rerr = "directory validation failed: directory \""
                                \o Abs(request.workingDir)
                                \o "\" is not allowed: "
                                \o config.DefaultErrorMessage
            /\ dirOk => HasPrefix(rerr, "parse error: ")

C10_Witness ==
    /\ rpc = "returned"
    /\ request.workingDir = "/etc"
    /\ OpenQuote(request.command)
    /\ rerr = "directory validation failed: directory \"/etc\" is not allowed: Command not allowed by security policy"

\* The commands of the program are plain: no assignment, no command
\* substitution, no variable reference.
PlainProgram ==
    \A i \in 1..Len(prog) :
        /\ ~IsAssignment(prog[i]) /\ ~HasSubst(prog[i])
        /\ \A j \in 1..Len(prog[i]) : ~IsVarRef(prog[i][j])

\* C11: in a script c1; c2; ...; cn the validator decides in dispatch
\* order.  When ck is the first denied command, c1..c(k-1) have been
\* validated and run and what they did stays (the children spawned and
\* the output written are kept), RunCommand has returned the denial
\* reason of ck as error, and no later command is validated or spawned.
C11_FirstDenialEndsTheScript ==
    /\ \A k \in 1..Len(vcalls) :
        ~vcalls[k].allowed =>
            /\ k = Len(vcalls)
            /\ rpc = "returned"
            /\ \A j \in 1..(k - 1) : vcalls[j].allowed
            /\ Len(spawned) = k - 1
            /\ \A j \in 1..(k - 1) :
                   spawned[j] = << vcalls[j].cmd >> \o vcalls[j].args
            /\ rerr = ValidateCommand(vcalls[k].cmd, vcalls[k].args,
                                      vcalls[k].dir).reason
            /\ rerr /= ""
    /\ PlainProgram =>
        /\ Len(vcalls) <= Len(prog)
        /\ \A j \in 1..Len(vcalls) :
               << vcalls[j].cmd >> \o vcalls[j].args = Fields(prog[j])
        /\ Len(stdout) = Len(spawned)
        /\ \A j \in 1..Len(spawned) : stdout[j] = spawned[j][1]

C11_Witness ==
    /\ rpc = "returned"
    /\ request.command = << "cat", "../file.txt", ";", "$X", "cat", "/etc/x" >>
    /\ Len(vcalls) = 2
    /\ vcalls[1].allowed /\ ~vcalls[2].allowed
    /\ spawned = << << "cat", "../file.txt" >> >>
    /\ stdout = << "cat" >>
    /\ rerr = "path \"/etc/x\" is outside of allowed directories: Command not allowed by security policy"

\* The elements of the pipeline the validator denies.
DeniedElements ==
    {i \in 1..Len(pst) :
        ~ValidateCommand(Fields(Elements[i])[1], Tail(Fields(Elements[i])),
                         Abs(request.workingDir)).allowed}

\* C12: in a pipeline with exactly one element the validator denies,
\* whatever its position and whatever the interleaving of the elements,
\* the denied element is never started and RunCommand returns an error
\* that is the denial reason of that element.
C12_PipelineDenialReachesCaller ==
    (pst /= <<>> /\ Cardinality(DeniedElements) = 1) =>
        LET d    == CHOOSE i \in DeniedElements : TRUE
            argv == Fields(Elements[d])
        IN  /\ pst[d] \in {"ready", "failed", "joined"}
            /\ \A j \in 1..Len(spawned) : spawned[j] /= argv
            /\ Len(spawned) <= Len(pst) - 1
            /\ rpc = "returned" =>
                /\ rerr /= ""
                /\ rerr = ValidateCommand(argv[1], Tail(argv),
                                          Abs(request.workingDir)).reason
                /\ Len(spawned) = Len(pst) - 1

C12_Witness ==
    /\ rpc = "returned"
    /\ request.command = << "cat", "|", "cat", "/etc/x", "|", "git", "cat" >>
    /\ DeniedElements = {2}
    /\ vcalls[1].cmd = "git" /\ vcalls[3].cmd = "cat" /\ ~vcalls[3].allowed
    /\ spawned = << << "git", "cat" >>, << "cat" >> >>
    /\ rerr = "path \"/etc/x\" is outside of allowed directories: Command not allowed by security policy"

\* The denied element is the first one, and it is dispatched last.
C12_WitnessFirst ==
    /\ rpc = "returned"
    /\ Len(pst) = 3 /\ DeniedElements = {1}
    /\ ~vcalls[3].allowed
    /\ rerr = "path \"/etc/x\" is outside of allowed directories: Command not allowed by security policy"

\* C13: with max_exec_seconds = T > 0 the interpreter runs under a
\* deadline of T seconds derived from the caller's context: a child still
\* running when it expires is cancelled and RunCommand then returns the
\* deadline-exceeded error, so the request always returns; with T = 0 no
\* deadline is installed and only the caller's cancellation ends the
\* request early.
C13_DeadlineBoundsTheRequest ==
    /\ [](rpc = "timed" =>
            /\ config.MaxExecutionTime > 0 =>
                   ctx.deadline = config.MaxExecutionTime
            /\ config.MaxExecutionTime = 0 =>
                   (ctx.deadline = 0 /\ ctx.err \in {"", Canceled}))
    /\ [](config.MaxExecutionTime = 0 => rerr /= DeadlineExceeded)
    /\ []((rpc = "returned" /\ child = "cancelled") =>
              (rerr = ctx.err /\ rerr /= ""))
    /\ []((ctx.err = "" /\ ctx.deadline > 0) => clock <= ctx.deadline)
    /\ (rpc = "timed" /\ child = "running" /\ ctx.err = DeadlineExceeded)
           ~> (rpc = "returned" /\ child = "cancelled"
               /\ rerr = DeadlineExceeded)
    /\ (rpc = "timed" /\ config.MaxExecutionTime > 0) ~> (rpc = "returned")

C13_Witness ==
    /\ rpc = "returned"
    /\ config.MaxExecutionTime = 2 /\ clock = 2
    /\ spawned = << << "cat" >> >>
    /\ child = "cancelled"
    /\ rerr = "context deadline exceeded"

\* The file the redirection of the request names, as the operating
\* system resolves it from the working directory of the request.
RedirectedFile ==
    LET path == RedirTarget(prog[1])
    IN  IF IsAbs(path) THEN Clean(path) ELSE Join(absWorkingDir, path)

\* C14: every file the script opens goes through the open hook, which
\* delegates to the real open only when the directory of the file has an
\* allowed_dirs entry as prefix; otherwise the script gets a file-open
\* error with the reason and no file is opened.
C14_OpensStayInAllowedDirs ==
    /\ \A i \in 1..Len(opened) : HasAllowedPrefix(Dir(opened[i]))
    /\ (rpc \in {"host", "returned"} /\ prog /= <<>>
        /\ RedirIndex(prog[1]) /= 0
        /\ (opened /= <<>> \/ stderr /= <<>>)) =>
           /\ opened /= <<>> => opened = << RedirectedFile >>
           /\ ~HasAllowedPrefix(Dir(RedirectedFile)) =>
                /\ opened = <<>>
                /\ Len(stderr) = 1
                /\ HasPrefix(stderr[1], "open " \o RedirTarget(prog[1])
                        \o ": access denied: file is outside allowed directories: ")

\* The environment a request may see: at most a fixed minimal PATH.
MinimalEnv == {"PATH=/usr/bin:/bin"}

\* C15: the interpreter of a request starts with an empty environment
\* apart from at most a fixed minimal PATH, and so do the children it
\* starts: nothing of the environment of the server process is visible,
\* and two server processes that differ only in their environment give
\* the same child environment for the same request.
C15_EnvironmentIsMinimal ==
    /\ ienv \subseteq MinimalEnv
    /\ \A i \in 1..Len(spawnEnv) : spawnEnv[i] \subseteq MinimalEnv
    /\ \A i \in 1..Len(spawnEnv) : \A h \in Hosts :
           h.dir = host.dir => spawnEnv[i] = h.env \cap MinimalEnv

(***************************************************************************)
(* Properties of the output limiter                                        *)
(***************************************************************************)
\* C17: over a sink that accepts every byte, every Write(p), whether the
\* limiter is below the limit, crosses it or is already truncated,
\* returns n = len(p) and a nil error.
C17_WriteReportsFullLength ==
    nwrites > 0 => (wret.n = Len(wret.p) /\ wret.err = "")

\* A write that crosses the limit: part of p is forwarded, the rest is
\* dropped.
C17_Witness ==
    /\ ol.MaxBytes = 2 /\ input = "adef" /\ wret.p = "def"
    /\ ol.Truncated /\ ol.BytesWritten = 2
    /\ wret.n = 3 /\ wret.err = ""

Min(a, b) == IF a < b THEN a ELSE b

\* The first min(total input, max_bytes) bytes of the input.
Payload == SubSeq(input, 1, Min(Len(input), ol.MaxBytes))

\* s is a truncation marker of the limiter.
IsMarker(s) ==
    \E r \in 0..Len(input) :
        s = "\n\n[Output truncated, exceeded " \o Itoa(ol.MaxBytes)
            \o " bytes limit. " \o Itoa(r) \o " bytes remaining]\n"

\* C18: with max_bytes > 0, after any sequence of writes the sink holds
\* exactly the first min(total input, max_bytes) bytes of the
\* concatenated input, in order, followed by at most one truncation
\* marker; a write on a truncated limiter leaves the sink unchanged.
C18_SinkIsPrefixPlusMarker ==
    /\ [](ol.MaxBytes > 0 =>
            /\ HasPrefix(sink, Payload)
            /\ \/ sink = Payload
               \/ IsMarker(SubSeq(sink, Len(Payload) + 1, Len(sink)))
            /\ ol.Truncated <=> sink /= Payload)
    /\ [][(ol.MaxBytes > 0 /\ ol.Truncated) => sink' = sink]_vars

C18_Witness ==
    /\ ol.MaxBytes = 3 /\ input = "bcdefa" /\ nwrites = 3
    /\ sink = "bcd\n\n[Output truncated, exceeded 3 bytes limit. 2 bytes remaining]\n"

\* C19 as stated: the marker is part of the accounting.
C19_AccountingCountsMarker ==
    ol.Truncated =>
        ol.TotalInputBytes
            = ol.BytesWritten + (Len(sink) - ol.BytesWritten)
              + GetRemainingBytes(ol)

\* C19 (amended): whenever a limiter is truncated, total_input_bytes =
\* payload bytes emitted to the sink + remaining_bytes, where
\* remaining_bytes is what GetRemainingBytes() reports; the truncation
\* marker is written to the sink in addition to the payload bytes and is
\* not counted.
C19_Accounting ==
    ol.Truncated =>
        /\ ol.TotalInputBytes = ol.BytesWritten + GetRemainingBytes(ol)
        /\ ol.TotalInputBytes = Len(input)
        /\ Len(sink) > ol.BytesWritten
        /\ IsMarker(SubSeq(sink, ol.BytesWritten + 1, Len(sink)))

C19_Witness ==
    /\ ol.Truncated /\ ol.MaxBytes = 3 /\ nwrites = 3
    /\ ol.TotalInputBytes = 8 /\ ol.BytesWritten = 3
    /\ GetRemainingBytes(ol) = 5

\* C20: with max_bytes > 0, after any sequence of writes, empty ones
\* included, WasTruncated() holds exactly when the total input exceeds
\* max_bytes: input of exactly max_bytes is forwarded in full and not
\* truncated, and a truncated limiter has GetRemainingBytes() > 0.
C20_TruncatedIffBytesDropped ==
    ol.MaxBytes > 0 =>
        /\ WasTruncated(ol) <=> Len(input) > ol.MaxBytes
        /\ Len(input) = ol.MaxBytes => (sink = input /\ ~WasTruncated(ol))
        /\ WasTruncated(ol) => GetRemainingBytes(ol) > 0

(***************************************************************************)
(* Properties of the server                                                *)
(***************************************************************************)
Other(q) == CHOOSE o \in Reqs : o /= q

\* C16: for two requests handled at the same time by handleRunCommand on
\* the shared runner, under every interleaving, the bytes written by the
\* children of one request reach only that request's output buffer: the
\* buffer and the result of a request never hold a byte of the other
\* request's children, and without an output limit the returned text is
\* exactly what the request's own child wrote.
C16_OutputsAreNotMixed ==
    \A q \in Reqs :
        /\ ~Contains(bufs[q], Other(q))
        /\ ~Contains(bufs["os"], q)
        /\ ~Contains(sreq[q].result.text, Other(q))
        /\ (sreq[q].pc = "done" /\ ~sreq[q].result.isError
             /\ config.MaxOutputSize = 0)
            => sreq[q].result.text = sreq[q].written

\* Both requests have returned their own output, A's truncated.
C16_Witness ==
    /\ sreq["A"].pc = "done" /\ sreq["B"].pc = "done"
    /\ config.MaxOutputSize = 4
    /\ sreq["A"].written = "AAAAAA" /\ sreq["B"].written = "BBB"
    /\ sreq["A"].result.text =
         "AAAA\n\n[Output truncated, exceeded 4 bytes limit. 2 bytes remaining]\n"
    /\ sreq["B"].result.text = "BBB"

\* A's child is writing while B, accepted, waits for the lock.
C16_WitnessWaiting ==
    /\ sreq["A"].pc = "child" /\ sreq["A"].nchunks = 1
    /\ sreq["B"].pc = "accepted" /\ mutex = "A"
    /\ bufs["A"] = "AAA"

(***************************************************************************)
(* Properties of the block journal                                         *)
(***************************************************************************)
\* The journal line of a denial of cmd with args for reason.
JournalLine(cmd, args, reason) ==
    Timestamp \o " [BLOCKED] Command: " \o cmd \o " " \o FormatSlice(args)
    \o ", Reason: " \o reason \o "\n"

IsPrefixSeq(s, t) == Len(s) <= Len(t) /\ SubSeq(t, 1, Len(s)) = s

\* C21: with BlockLogPath set (and writable), a ValidateCommand call that
\* returns denied appends at least one line to the block journal, the
\* last of them holding "[BLOCKED]", the command, its argument vector and
\* the reason returned; a call that returns allowed appends nothing;
\* lines already in the journal are never modified; with BlockLogPath
\* empty nothing is ever written.
C21_DenialsAreJournalled ==
    /\ [](call.op = "ValidateCommand" =>
            /\ (config.BlockLogPath /= "" /\ ~ret.allowed) =>
                  /\ Len(blockLog) >= 1
                  /\ blockLog[Len(blockLog)]
                       = JournalLine(call.cmd, call.args, ret.reason)
            /\ ret.allowed => blockLog = <<>>)
    /\ [](config.BlockLogPath = "" => blockLog = <<>>)
    /\ [][IsPrefixSeq(blockLog, blockLog')]_vars

\* A denied xargs invocation: the nested denial and the denial of xargs
\* itself are both in the journal, in that order.
C21_Witness ==
    /\ call.op = "ValidateCommand" /\ call.cmd = "xargs"
    /\ ~ret.allowed
    /\ Len(blockLog) = 2
    /\ blockLog[2] = JournalLine("xargs", call.args, ret.reason)

(***************************************************************************)
(* Properties of the configuration loader                                  *)
(***************************************************************************)
\* The rule a list element stands for: a bare string "X" is the rule of the
\* object {"command": "X"}.
AllowRuleOf(raw) ==
    IF raw.kind = "string" THEN AllowCommand(raw.str, <<>>, <<>>)
    ELSE AllowCommand(raw.obj.command, raw.obj.subCommands,
                      raw.obj.denySubCommands)

DenyRuleOf(raw) ==
    IF raw.kind = "string" THEN DenyCommand(raw.str, "")
    ELSE DenyCommand(raw.obj.command, raw.obj.message)

\* C22: loading a configuration document whose allowCommands and
\* denyCommands lists mix bare strings and objects succeeds; a bare string
\* "X" yields the rule of the object {"command": "X"} (no sub-command
\* lists, no message), and the order of each list is kept.
C22_MixedFormsLoad ==
    loaded.op = "LoadConfigFromFile" =>
        /\ loaded.ok
        /\ loaded.value.AllowCommands
             = [i \in 1..Len(doc.allowCommands) |->
                   AllowRuleOf(doc.allowCommands[i])]
        /\ loaded.value.DenyCommands
             = [i \in 1..Len(doc.denyCommands) |->
                   DenyRuleOf(doc.denyCommands[i])]

\* The exported list helpers do what the claim says of the loader.
C22_HelpersAcceptMixedForms ==
    /\ loaded.op = "UnmarshalAllowCommands" =>
          /\ loaded.ok
          /\ loaded.value = [i \in 1..Len(doc.allowCommands) |->
                                AllowRuleOf(doc.allowCommands[i])]
    /\ loaded.op = "UnmarshalDenyCommands" =>
          /\ loaded.ok
          /\ loaded.value = [i \in 1..Len(doc.denyCommands) |->
                                DenyRuleOf(doc.denyCommands[i])]

(***************************************************************************)
(* Properties of the meta-command parsers                                  *)
(***************************************************************************)
\* The flags of xargs that take their value in the next token.
ValueTaking ==
    {"-a", "-E", "-n", "-s", "-L", "-P", "-I", "-i", "--arg-file", "--eof",
     "--max-args", "--max-chars", "--max-lines", "--max-procs"}

\* The positions of args a left-to-right scan looks at when it skips every
\* value-taking flag together with the token after it.
Looked(args) ==
    LET looked[j \in 1..Len(args)] ==
            \/ j = 1
            \/ /\ j > 1 /\ looked[j - 1]
               /\ HasPrefix(args[j - 1], "-") /\ args[j - 1] \notin ValueTaking
            \/ /\ j > 2 /\ looked[j - 2]
               /\ args[j - 2] \in ValueTaking
    IN  {j \in 1..Len(args) : looked[j]}

\* The positions at which the command of xargs can stand.
CommandPositions(args) ==
    IF \E i \in 1..(Len(args) - 1) : args[i] \in {"-exec", "--exec"}
    THEN {1 + SetMin({i \in 1..(Len(args) - 1) : args[i] \in {"-exec", "--exec"}})}
    ELSE LET plain == {j \in Looked(args) : ~HasPrefix(args[j], "-")}
         IN  IF plain = {} THEN {} ELSE {SetMin(plain)}

\* C23: ParseXargsCommand(args) returns (cmd, rest, TRUE, "") where cmd is
\* the token after the first -exec/--exec that is not the last token, or,
\* without one, the first token not starting with "-" met while skipping
\* each value-taking flag with its value, and rest is what follows cmd;
\* it returns FALSE with "no arguments provided to xargs" for an empty
\* list and with "unable to determine command to be executed by xargs"
\* when there is no such token.
C23_XargsCommandExtraction ==
    call.op = "ParseXargsCommand" =>
        IF call.args = <<>>
        THEN ret = Parsed("", <<>>, FALSE, "no arguments provided to xargs")
        ELSE IF CommandPositions(call.args) = {}
        THEN ret = Parsed("", <<>>, FALSE,
                     "unable to determine command to be executed by xargs")
        ELSE \E k \in CommandPositions(call.args) :
                ret = Parsed(call.args[k],
                             SubSeq(call.args, k + 1, Len(call.args)), TRUE, "")

\* A value-taking flag is skipped together with its value, although the
\* value reads like a command.
C23_Witness ==
    /\ call.op = "ParseXargsCommand"
    /\ call.args = << "-I", "cat", "1" >>
    /\ ret = Parsed("1", <<>>, TRUE, "")

\* The clauses of a find argument list: a clause starts at an exec flag
\* that has a token after it and lies in no earlier clause, and extends
\* up to the next terminator.
ClauseStarts(args) ==
    LET end(s) == IF \E j \in (s + 1)..Len(args) : IsTerminator(args[j])
                  THEN SetMin({j \in (s + 1)..Len(args) : IsTerminator(args[j])})
                  ELSE Len(args) + 1
        start[i \in 1..Len(args)] ==
            /\ IsExecFlag(args[i])
            /\ i < Len(args)
            /\ \A s \in 1..(i - 1) : start[s] => i > end(s)
    IN  {i \in 1..Len(args) : start[i]}

\* The operands of the clauses, in order of appearance.
RECURSIVE Operands(_, _)
Operands(args, starts) ==
    IF starts = {} THEN <<>>
    ELSE LET s == SetMin(starts)
         IN  (IF IsTerminator(args[s + 1]) THEN <<>> ELSE << args[s + 1] >>)
             \o Operands(args, starts \ {s})

\* C24: ParseFindExecArgs(args) returns, in order of appearance, the
\* command operand (the token right after the flag) of every -exec and
\* -execdir clause, a clause extending up to the next terminator ";",
\* "\\;" or "+"; no clause with an operand is skipped, whatever the text of
\* the operand; without any operand the result is empty with ok FALSE and
\* an empty error message.
C24_FindExecOperands ==
    call.op = "ParseFindExecArgs" =>
        LET expected == Operands(call.args, ClauseStarts(call.args))
        IN  ret = FindResult(expected, expected /= <<>>, "")

(***************************************************************************)
(* Properties of nested meta-commands                                      *)
(***************************************************************************)
\* How many meta-commands an invocation nests: xargs running xargs
\* running cat nests two.
RECURSIVE MetaDepth(_, _)
MetaDepth(cmd, args) ==
    IF cmd /= "xargs" THEN 0
    ELSE IF ~ParseXargsCommand(args).valid THEN 1
    ELSE 1 + MetaDepth(ParseXargsCommand(args).cmd, ParseXargsCommand(args).args)

\* C25: the recursion of ValidateCommand into meta-commands is limited:
\* an invocation that nests meta-commands more than 4 levels deep (xargs
\* xargs xargs xargs xargs cat, with xargs and cat allow-listed) is
\* denied; and the recursion ends for every finite argument list, each
\* level consuming at least one argument.
C25_MetaRecursionIsBounded ==
    call.op = "ValidateCommand" =>
        /\ MetaDepth(call.cmd, call.args) > 4 => ~ret.allowed
        /\ MetaDepth(call.cmd, call.args) <= 1 + Len(call.args)

(***************************************************************************)
(* Properties of xargs invocations                                         *)
(***************************************************************************)
\* The position of the command xargs runs: the first token that is
\* neither an option nor the value of an option; 0 when there is none.
RunPosition(args) ==
    LET plain == {j \in Looked(args) : ~HasPrefix(args[j], "-")}
    IN  IF plain = {} THEN 0 ELSE SetMin(plain)

\* C26: whenever ValidateCommand allows an xargs invocation, the command
\* xargs would run, the first token of args that is neither an option of
\* xargs nor the value of one, is allowed by the policy together with
\* the arguments that follow it; an -exec/--exec token among the
\* arguments of that command does not change which command is validated.
C26_XargsValidatesWhatItRuns ==
    (Validating /\ call.cmd = "xargs" /\ ret.allowed) =>
        LET k == RunPosition(call.args)
        IN  /\ k /= 0
            /\ ValidateCommand(call.args[k],
                               SubSeq(call.args, k + 1, Len(call.args)),
                               call.dir).allowed

(***************************************************************************)
(* Properties of the captured output of a request                          *)
(***************************************************************************)
CountByte(s, ch) == Cardinality({i \in 1..Len(s) : SubSeq(s, i, i) = ch})

\* C27: with MaxOutputSize = N > 0 and stdout and stderr captured into one
\* buffer by SetOutputs(buf, buf), the captured output of a request never
\* holds more than N payload bytes, nor more than one truncation marker,
\* whatever the children write to the two streams.
C27_CombinedOutputIsCapped ==
    \A q \in Reqs :
        config.MaxOutputSize > 0 =>
            /\ CountByte(bufs[q], q) <= config.MaxOutputSize
            /\ CountByte(bufs[q], "[") <= 1

(***************************************************************************)
(* Properties of a limiter shared by concurrent writers                    *)
(***************************************************************************)
\* C28: when two pipeline elements of one request write to the same
\* stream and their Write calls on the shared OutputLimiter interleave at
\* any point, the limiter forwards at most MaxBytes payload bytes and at
\* most one truncation marker to the sink, and, once the calls have
\* returned, TotalInputBytes is the sum of the lengths of all writes.
C28_SharedLimiterStaysWithinLimit ==
    /\ CountByte(sink, "A") + CountByte(sink, "B") <= ol.MaxBytes
    /\ CountByte(sink, "[") <= 1
    /\ (\A g \in Writers : gor[g].pc = "idle") =>
          ol.TotalInputBytes = Len(input)

(***************************************************************************)
(* Properties of the lock of the server                                    *)
(***************************************************************************)
\* The request is between Lock and the return of handleRunCommand.
InCriticalSection(q) ==
    sreq[q].pc \in {"locked", "set", "interp", "child", "returning"}

\* C29: handleRunCommand takes cmdMutex before SetOutputs and releases it
\* only after RunCommand has returned, on the success and on the error
\* path: at most one request is between SetOutputs and the end of
\* RunCommand, a request whose parameters are rejected returns an error
\* result without taking the lock or touching the runner, and the lock
\* is not held once the handlers have returned.
C29_LockCoversSetOutputsAndRun ==
    /\ [](\A q \in Reqs : InCriticalSection(q) <=> mutex = q)
    /\ [](\A q \in Reqs : InCriticalSection(q) => ~InCriticalSection(Other(q)))
    /\ []((\A q \in Reqs : sreq[q].pc = "done") => mutex = "")
    /\ [][\A q \in Reqs :
            (sreq[q].pc = "new" /\ sreq'[q].pc = "done") =>
                /\ sreq'[q].result.isError
                /\ UNCHANGED <<mutex, rw, lims>>]_vars
    /\ [][\A q \in Reqs :
            (InCriticalSection(q) /\ sreq'[q].pc = "done") => mutex' = ""]_vars

\* A's RunCommand failed and A has returned; B, which waited, now holds
\* the lock and its child runs.
C29_Witness ==
    /\ sreq["A"].pc = "done" /\ sreq["A"].result.isError
    /\ HasPrefix(sreq["A"].result.text, "Command execution failed: ")
    /\ sreq["B"].pc = "child" /\ mutex = "B"

(***************************************************************************)
(* Invariants of the output limiter                                        *)
(***************************************************************************)
\* C30: in every state reached by Write calls on a limiter with
\* MaxBytes > 0 over a sink that accepts every byte:
\* 0 <= BytesWritten <= MaxBytes, BytesWritten <= TotalInputBytes,
\* TotalInputBytes is the sum of the lengths of all writes, Truncated
\* never goes back to false, and GetRemainingBytes() is 0 while not
\* truncated and TotalInputBytes - BytesWritten once truncated, so that
\* each later Write(p) raises it by len(p).
C30_LimiterCounters ==
    /\ [](ol.MaxBytes > 0 =>
            /\ 0 <= ol.BytesWritten /\ ol.BytesWritten <= ol.MaxBytes
            /\ ol.BytesWritten <= ol.TotalInputBytes
            /\ ol.TotalInputBytes = Len(input)
            /\ ~ol.Truncated => GetRemainingBytes(ol) = 0
            /\ ol.Truncated =>
                  GetRemainingBytes(ol) = Len(input) - ol.BytesWritten)
    /\ [][ol.MaxBytes > 0 =>
            /\ ol.Truncated => ol'.Truncated
            /\ ol.Truncated =>
                  GetRemainingBytes(ol')
                      = GetRemainingBytes(ol) + Len(wret'.p)]_vars

\* Two writes after the truncation: the remainder has grown by both.
C30_Witness ==
    /\ ol.MaxBytes = 2 /\ nwrites = 3 /\ input = "defbca"
    /\ ol.Truncated /\ ol.BytesWritten = 2 /\ ol.TotalInputBytes = 6
    /\ GetRemainingBytes(ol) = 4

====
